---- MODULE Spec2Model ----
(***************************************************************************)
(* quickpost: the post store (PostManager, folder layout and flat-file     *)
(* layout) and the HTTP handler in front of it.                            *)
(*                                                                         *)
(* A JavaScript string is a sequence of one-character strings.  The values *)
(* undefined, null and a number are one-element sequences whose element is *)
(* a longer word, so they are comparable with strings and equal to none.   *)
(* The file system is a function from absolute normalised paths (sequences *)
(* of path components) to entries.                                         *)
(***************************************************************************)
EXTENDS Integers, Sequences, FiniteSets, TLC

VARIABLES fs, clock, op, procs, cli

vars == <<fs, clock, op, procs, cli>>

(***************************************************************************)
(* Bounds of the model                                                     *)
(***************************************************************************)
\* Date.now() takes the values 0..MaxClock (milliseconds)
MaxClock == 1
\* create is not called once this many posts are stored
MaxPosts == 2

(***************************************************************************)
(* JavaScript values and strings                                           *)
(***************************************************************************)
JsUndefined == <<"undefined">>
JsNull == <<"null">>
JsNumber == <<"number">>

IsString(v) == v \notin {JsUndefined, JsNull, JsNumber}

\* v || w on string-or-undefined values: the empty string and undefined are falsy
Truthy(v) == v \notin {JsUndefined, JsNull, <<>>}

LowerLetters ==
    <<"a","b","c","d","e","f","g","h","i","j","k","l","m",
      "n","o","p","q","r","s","t","u","v","w","x","y","z">>
UpperLetters ==
    <<"A","B","C","D","E","F","G","H","I","J","K","L","M",
      "N","O","P","Q","R","S","T","U","V","W","X","Y","Z">>
Digits == {"0","1","2","3","4","5","6","7","8","9"}

Range(s) == {s[i] : i \in 1..Len(s)}

\* \w of a JavaScript regular expression
IsWord(c) == c \in Range(LowerLetters) \cup Range(UpperLetters) \cup Digits \cup {"_"}
\* \s of a JavaScript regular expression, and what String.prototype.trim removes
IsSpace(c) == c \in {" ", "\t", "\n", "\r"}
IsQuote(c) == c \in {"\"", "'"}

ToLowerChar(c) ==
    IF c \in Range(UpperLetters)
    THEN LowerLetters[CHOOSE i \in 1..26 : UpperLetters[i] = c]
    ELSE c

\* String.prototype.toLowerCase
ToLowerCase(s) == [i \in 1..Len(s) |-> ToLowerChar(s[i])]

\* the concatenation of F(1), ..., F(n)
ConcatMap(n, F(_)) ==
    LET g[i \in 0..n] == IF i = 0 THEN <<>> ELSE g[i-1] \o F(i)
    IN g[n]

\* s without its leading and trailing characters that satisfy Drop
StripBoth(s, Drop(_)) ==
    LET keep == {i \in 1..Len(s) : ~Drop(s[i])}
    IN IF keep = {} THEN <<>>
       ELSE LET lo == CHOOSE i \in keep : \A j \in keep : i <= j
                hi == CHOOSE i \in keep : \A j \in keep : i >= j
            IN SubSeq(s, lo, hi)

\* String.prototype.trim
Trim(s) == StripBoth(s, IsSpace)

StartsWith(s, p) == Len(s) >= Len(p) /\ SubSeq(s, 1, Len(p)) = p
EndsWith(s, p) == Len(s) >= Len(p) /\ SubSeq(s, Len(s) - Len(p) + 1, Len(s)) = p

\* the least i >= from with s[i..] starting with p, or 0 (String.prototype.indexOf, 1-based)
IndexOfFrom(s, p, from) ==
    LET hits == {i \in from..(Len(s) - Len(p) + 1) : SubSeq(s, i, i + Len(p) - 1) = p}
    IN IF hits = {} THEN 0 ELSE CHOOSE i \in hits : \A j \in hits : i <= j

Includes(s, p) == IndexOfFrom(s, p, 1) > 0

\* String.prototype.split on a one-character separator
Split(s, sep) ==
    LET cuts == {i \in 1..Len(s) : s[i] = sep}
        n == Cardinality(cuts)
        \* the position of the k-th separator; 0 before the first, Len(s)+1 after the last
        cut[k \in 0..(n+1)] ==
            IF k = 0 THEN 0
            ELSE IF k = n + 1 THEN Len(s) + 1
            ELSE CHOOSE i \in cuts : Cardinality({j \in cuts : j < i}) = k - 1
    IN [k \in 1..(n+1) |-> SubSeq(s, cut[k-1] + 1, cut[k] - 1)]

(***************************************************************************)
(* generateSlug                                                            *)
(***************************************************************************)
\* .slice(0, 60)
SlugMaxLen == 60

\* .replace(/[^\w\s-]/g, "")
RemoveSpecial(s) == SelectSeq(s, LAMBDA c : IsWord(c) \/ IsSpace(c) \/ c = "-")

\* .replace(/\s+/g, "-")
SpacesToHyphen(s) ==
    ConcatMap(Len(s), LAMBDA i :
        IF IsSpace(s[i])
        THEN (IF i > 1 /\ IsSpace(s[i-1]) THEN <<>> ELSE <<"-">>)
        ELSE <<s[i]>>)

\* .replace(/-+/g, "-")
CollapseHyphens(s) ==
    ConcatMap(Len(s), LAMBDA i :
        IF s[i] = "-" /\ i > 1 /\ s[i-1] = "-" THEN <<>> ELSE <<s[i]>>)

\* .replace(/^-+|-+$/g, "")
TrimHyphens(s) == StripBoth(s, LAMBDA c : c = "-")

\* .slice(0, n)
Slice(s, n) == IF Len(s) <= n THEN s ELSE SubSeq(s, 1, n)

generateSlug(title) ==
    Slice(TrimHyphens(CollapseHyphens(SpacesToHyphen(RemoveSpecial(
        Trim(ToLowerCase(title)))))), SlugMaxLen)

(***************************************************************************)
(* parseFrontmatter                                                        *)
(* A frontmatter object is the sequence of its [k, v] entries in insertion *)
(* order, as Object.keys / Object.entries enumerate them.                  *)
(***************************************************************************)
FmOpen == <<"-","-","-","\n">>
FmClose == <<"\n","-","-","-","\n">>

\* frontmatter[key] = value
FmSet(fm, key, value) ==
    IF \E i \in 1..Len(fm) : fm[i].k = key
    THEN [i \in 1..Len(fm) |-> IF fm[i].k = key THEN [k |-> key, v |-> value] ELSE fm[i]]
    ELSE Append(fm, [k |-> key, v |-> value])

\* frontmatter[key], undefined when the key is not set
FmGet(fm, key) ==
    IF \E i \in 1..Len(fm) : fm[i].k = key
    THEN fm[CHOOSE i \in 1..Len(fm) : fm[i].k = key].v
    ELSE JsUndefined

\* .replace(/^["']|["']$/g, "")
StripQuotes(s) ==
    LET a == IF Len(s) > 0 /\ IsQuote(s[1]) THEN SubSeq(s, 2, Len(s)) ELSE s
    IN IF Len(a) > 0 /\ IsQuote(a[Len(a)]) THEN SubSeq(a, 1, Len(a) - 1) ELSE a

\* the forEach body: a line whose first colon is not its first character sets a field
FmLine(fm, line) ==
    LET colon == IndexOfFrom(line, <<":">>, 1)
    IN IF colon > 1
       THEN FmSet(fm, Trim(SubSeq(line, 1, colon - 1)),
                  StripQuotes(Trim(SubSeq(line, colon + 1, Len(line)))))
       ELSE fm

\* /^---\n([\s\S]*?)\n---\n([\s\S]*)$/ : the position of the closing "\n---\n", or 0
FmMatch(content) ==
    IF StartsWith(content, FmOpen) THEN IndexOfFrom(content, FmClose, Len(FmOpen) + 1) ELSE 0

parseFrontmatter(content) ==
    LET close == FmMatch(content)
    IN IF close = 0
       THEN [frontmatter |-> <<>>, body |-> content]
       ELSE LET lines == Split(SubSeq(content, Len(FmOpen) + 1, close - 1), "\n")
                acc[i \in 0..Len(lines)] ==
                    IF i = 0 THEN <<>> ELSE FmLine(acc[i-1], lines[i])
            IN [frontmatter |-> acc[Len(lines)],
                body |-> SubSeq(content, close + Len(FmClose), Len(content))]

(***************************************************************************)
(* Date                                                                    *)
(* A Date is its millisecond count t; the instant of tick t is             *)
(* 2025-01-01T00:00:00.00tZ.                                               *)
(***************************************************************************)
DigitChar(d) == <<"0","1","2","3","4","5","6","7","8","9">>[d + 1]

IsoDatePart == <<"2","0","2","5","-","0","1","-","0","1","T","0","0",":","0","0",":","0","0">>

\* Date.prototype.toISOString
toISOString(t) ==
    IsoDatePart \o <<".", DigitChar((t \div 100) % 10), DigitChar((t \div 10) % 10),
                     DigitChar(t % 10), "Z">>

\* now.toISOString().replace(/\.\d{3}Z$/, "-07:00")
publishDateOf(t) == IsoDatePart \o <<"-","0","7",":","0","0">>

\* the value of an invalid Date
InvalidDate == 0 - 1

\* new Date(string).getTime() for the strings toISOString produces; NaN otherwise
parseDate(s) ==
    IF \E t \in 0..999 : toISOString(t) = s
    THEN CHOOSE t \in 0..999 : toISOString(t) = s
    ELSE InvalidDate

(***************************************************************************)
(* Paths (jsr:@std/path join / resolve, POSIX)                             *)
(***************************************************************************)
Dot == <<".">>
DotDot == <<".", ".">>

\* normalisation of base/rel: empty and "." components vanish, ".." steps up
ResolveFrom(base, rel) ==
    LET parts == Split(rel, "/")
        walk[i \in 0..Len(parts)] ==
            IF i = 0 THEN base
            ELSE LET here == walk[i-1]
                     part == parts[i]
                 IN IF part = <<>> \/ part = Dot THEN here
                    ELSE IF part = DotDot
                         THEN (IF here = <<>> THEN here ELSE SubSeq(here, 1, Len(here) - 1))
                    ELSE Append(here, part)
    IN walk[Len(parts)]

IsPrefix(p, q) == Len(p) <= Len(q) /\ SubSeq(q, 1, Len(p)) = p

Parent(p) == SubSeq(p, 1, Len(p) - 1)

(***************************************************************************)
(* The file system (Deno.stat, ensureDir, Deno.writeTextFile,              *)
(* Deno.readTextFile, Deno.readDir, Deno.remove)                           *)
(* An entry is [kind, text, json]: a directory, a text file, or a file     *)
(* holding the JSON.stringify of a metadata object.  A file operation      *)
(* yields [ok, fs]: ok is FALSE when the call throws.                      *)
(***************************************************************************)
NoJson == [id |-> <<>>, slug |-> <<>>, title |-> <<>>, createdAt |-> 0, updatedAt |-> 0]

DirEntry == [kind |-> "dir", text |-> <<>>, json |-> NoJson]
TextEntry(text) == [kind |-> "text", text |-> text, json |-> NoJson]
JsonEntry(json) == [kind |-> "json", text |-> <<>>, json |-> json]

Exists(f, p) == p \in DOMAIN f
IsDirectory(f, p) == Exists(f, p) /\ f[p].kind = "dir"
IsFile(f, p) == Exists(f, p) /\ f[p].kind # "dir"

\* ensureDir: mkdir -p; throws when the path or one of its ancestors is a file
ensureDir(f, p) ==
    LET prefixes == {SubSeq(p, 1, n) : n \in 0..Len(p)}
    IN IF \E q \in prefixes : IsFile(f, q)
       THEN [ok |-> FALSE, fs |-> f]
       ELSE [ok |-> TRUE,
             fs |-> [q \in DOMAIN f \cup prefixes |-> IF q \in DOMAIN f THEN f[q] ELSE DirEntry]]

\* Deno.writeTextFile: throws when the parent is no directory or the path is one
writeFile(f, p, entry) ==
    IF p = <<>> \/ ~IsDirectory(f, Parent(p)) \/ IsDirectory(f, p)
    THEN [ok |-> FALSE, fs |-> f]
    ELSE [ok |-> TRUE, fs |-> [q \in DOMAIN f \cup {p} |-> IF q = p THEN entry ELSE f[q]]]

\* Deno.remove(path, {recursive: true}): throws when the path does not exist
removeAll(f, p) ==
    IF ~Exists(f, p)
    THEN [ok |-> FALSE, fs |-> f]
    ELSE [ok |-> TRUE, fs |-> [q \in {r \in DOMAIN f : ~IsPrefix(p, r)} |-> f[q]]]

\* Deno.readDir: the names of the entries directly inside p
Children(f, p) == {q \in DOMAIN f : Len(q) = Len(p) + 1 /\ IsPrefix(p, q)}

(***************************************************************************)
(* Names                                                                   *)
(***************************************************************************)
WorkDir == << <<"w">> >>
\* this.postsDir = resolve(Deno.cwd(), "posts")
PostsDir == << <<"w">>, <<"p","o","s","t","s">> >>

PostMd == <<"p","o","s","t",".","m","d">>
MetaJson == <<"m","e","t","a",".","j","s","o","n">>
ImagesDir == <<"i","m","a","g","e","s">>
SlugKey == <<"s","l","u","g">>
TitleKey == <<"t","i","t","l","e">>

\* join(this.postsDir, id)
PostPath(id) == ResolveFrom(PostsDir, id)

\* String(counter)
RECURSIVE Decimal(_)
Decimal(n) == IF n < 10 THEN <<DigitChar(n)>> ELSE Decimal(n \div 10) \o <<DigitChar(n % 10)>>

(***************************************************************************)
(* PostManager, folder layout: <postsDir>/<slug>/{post.md, meta.json,      *)
(* images/}.  An operation yields [threw, fs, value]; the absent post is   *)
(* NoPost.                                                                 *)
(***************************************************************************)
NoPost == [id |-> JsNull, folder |-> JsNull, title |-> JsNull, content |-> JsNull,
           createdAt |-> InvalidDate, updatedAt |-> InvalidDate]

slugExistsAlways(f, slug) == FALSE

\* slugExists: stat(join(postsDir, slug)).isDirectory, false when stat throws
slugExists(f, slug) == IsDirectory(f, PostPath(slug))

\* the while loop of create: slug, else slug-k for the least k >= 1 that is free
uniqueSlugOf(f, slug) ==
    IF ~slugExists(f, slug) THEN slug
    ELSE LET n == Cardinality(DOMAIN f) + 1
             free == {k \in 1..n : ~slugExists(f, slug \o <<"-">> \o Decimal(k))}
         IN slug \o <<"-">> \o Decimal(CHOOSE k \in free : \A j \in free : k <= j)

\* a sequence of awaited file operations: the next step runs on the disk the
\* previous one left, unless that one threw
Then(r, Step(_)) == IF r.ok THEN Step(r.fs) ELSE r

\* the outcome of an operation whose file operations ended as r
Outcome(r, value) ==
    [threw |-> ~r.ok, fs |-> r.fs, value |-> IF r.ok THEN value ELSE NoPost]

Thrown(f) == [threw |-> TRUE, fs |-> f, value |-> NoPost]

\* create from "const folder = uniqueSlug" on: the folder, images/, post.md and
\* meta.json, and the post returned
createPostFolder(f, uniqueSlug, postDir, data, now) ==
    Outcome(
        Then(Then(Then(ensureDir(f, postDir),
                       LAMBDA g : ensureDir(g, Append(postDir, ImagesDir))),
                  LAMBDA g : writeFile(g, Append(postDir, PostMd), TextEntry(data.content))),
             LAMBDA g : writeFile(g, Append(postDir, MetaJson),
                                  JsonEntry([id |-> uniqueSlug, slug |-> uniqueSlug,
                                             title |-> data.title,
                                             createdAt |-> now, updatedAt |-> now]))),
        [id |-> uniqueSlug, folder |-> uniqueSlug, title |-> data.title,
         content |-> data.content, createdAt |-> now, updatedAt |-> now])

candidateSlugFromTitle(fmSlug, title) == generateSlug(title)

\* const slug = frontmatter.slug || this.generateSlug(data.title)
candidateSlug(fmSlug, title) == IF Truthy(fmSlug) THEN fmSlug ELSE generateSlug(title)

\* create once the posts directory exists and the content is parsed: fmSlug is
\* frontmatter.slug
createFrom(f, fmSlug, data, now) ==
    \* frontmatter.slug || this.generateSlug(data.title): title.toLowerCase throws
    IF ~Truthy(fmSlug) /\ ~IsString(data.title) THEN Thrown(f)
    ELSE createPostFolder(
            f,
            uniqueSlugOf(f, candidateSlug(fmSlug, data.title)),
            PostPath(uniqueSlugOf(f, candidateSlug(fmSlug, data.title))),
            data, now)

\* create(data) at time now; data is null (isNull) or an object [title, content]
folderCreate(f, data, now) ==
    IF ~ensureDir(f, PostsDir).ok THEN Thrown(f)
    \* parseFrontmatter(data.content): data.content on null and content.match on a
    \* non-string throw
    ELSE IF data.isNull \/ ~IsString(data.content) THEN Thrown(ensureDir(f, PostsDir).fs)
    ELSE createFrom(ensureDir(f, PostsDir).fs,
                    FmGet(parseFrontmatter(data.content).frontmatter, SlugKey), data, now)

\* meta.json taken as readable whatever it holds
MetaReadableAnyFile(f, dir) == IsFile(f, Append(dir, MetaJson))

\* JSON.parse(readTextFile(dir/meta.json)) succeeds
MetaReadable(f, dir) == Exists(f, Append(dir, MetaJson)) /\ f[Append(dir, MetaJson)].kind = "json"
\* readTextFile(dir/post.md) succeeds
ContentReadable(f, dir) == IsFile(f, Append(dir, PostMd))

\* get(id): null when the path is no directory or a read or JSON.parse throws
folderGet(f, id) ==
    LET postPath == PostPath(id)
    IN IF ~IsDirectory(f, postPath) THEN NoPost
       ELSE IF ~MetaReadable(f, postPath) \/ ~ContentReadable(f, postPath) THEN NoPost
       ELSE LET metadata == f[Append(postPath, MetaJson)].json
            IN [id |-> metadata.id, folder |-> id, title |-> metadata.title,
                content |-> f[Append(postPath, PostMd)].text,
                createdAt |-> metadata.createdAt, updatedAt |-> metadata.updatedAt]

\* b.createdAt.getTime() - a.createdAt.getTime() > 0: b sorts before a
SortsBefore(b, a) == b.createdAt > a.createdAt

\* Array.prototype.sort (stable) with that comparator
SortPosts(s) ==
    LET pos(i) == 1 + Cardinality({j \in 1..Len(s) :
                        SortsBefore(s[j], s[i]) \/ (~SortsBefore(s[i], s[j]) /\ j < i)})
    IN [k \in 1..Len(s) |-> s[CHOOSE i \in 1..Len(s) : pos(i) = k]]

\* the orders in which Deno.readDir may enumerate the entries of the posts directory
ReadDirOrders(f) ==
    LET names == Children(f, PostsDir)
        n == Cardinality(names)
    IN {o \in [1..n -> names] : \A i, j \in 1..n : i # j => o[i] # o[j]}

\* the for loop of list: a summary for each directory entry whose meta.json parses
folderSummaries(f, entries) ==
    LET summary(dir) ==
            LET metadata == f[Append(dir, MetaJson)].json
            IN [id |-> metadata.id, folder |-> dir[Len(dir)], title |-> metadata.title,
                createdAt |-> metadata.createdAt, updatedAt |-> metadata.updatedAt]
    IN ConcatMap(Len(entries), LAMBDA i :
            IF IsDirectory(f, entries[i]) /\ MetaReadable(f, entries[i])
            THEN <<summary(entries[i])>> ELSE <<>>)

\* list(), readDir enumerating the posts directory in the order entries;
\* [] when ensureDir throws
folderList(f, entries) ==
    LET e0 == ensureDir(f, PostsDir)
    IN IF ~e0.ok THEN [threw |-> FALSE, fs |-> f, value |-> <<>>]
       ELSE [threw |-> FALSE, fs |-> e0.fs, value |-> SortPosts(folderSummaries(f, entries))]

updatedMetadataNewCreatedAt(old, data, now) ==
    [old EXCEPT !.title = IF data.title # JsUndefined THEN data.title ELSE @,
                !.createdAt = now, !.updatedAt = now]

\* the metadata with the title left as it was read
updatedMetadataKeepTitle(old, data, now) == [old EXCEPT !.updatedAt = now]

\* metadata.title = data.title when given; metadata.updatedAt = new Date().toISOString()
updatedMetadata(old, data, now) ==
    [old EXCEPT !.title = IF data.title # JsUndefined THEN data.title ELSE @,
                !.updatedAt = now]

\* update from "const metaFile" on, g the disk after the content is written:
\* meta.json rewritten, and the post returned
updateMetadata(g, metaFile, post, data, now) ==
    [threw |-> FALSE,
     fs |-> writeFile(g, metaFile, JsonEntry(updatedMetadata(g[metaFile].json, data, now))).fs,
     value |-> [post EXCEPT
         !.title = IF data.title \in {JsUndefined, JsNull} THEN @ ELSE data.title,
         !.content = IF data.content \in {JsUndefined, JsNull} THEN @ ELSE data.content,
         !.updatedAt = now]]

\* update of the post that get(id) returned
updateFound(f, postPath, post, data, now) ==
    updateMetadata(
        IF data.content # JsUndefined
        THEN writeFile(f, Append(postPath, PostMd), TextEntry(data.content)).fs
        ELSE f,
        Append(postPath, MetaJson), post, data, now)

\* update(id, data) at time now; data is null (isNull) or an object [title, content]
folderUpdate(f, id, data, now) ==
    IF folderGet(f, id) = NoPost THEN [threw |-> FALSE, fs |-> f, value |-> NoPost]
    \* data.content on null throws
    ELSE IF data.isNull THEN Thrown(f)
    ELSE updateFound(f, PostPath(id), folderGet(f, id), data, now)


\* delete removing post.md and meta.json and leaving the rest of the folder
folderDeleteFilesOnly(f, id) ==
    IF ~IsDirectory(f, PostPath(id)) THEN [threw |-> FALSE, fs |-> f, value |-> FALSE]
    ELSE [threw |-> FALSE,
          fs |-> [q \in DOMAIN f \ {Append(PostPath(id), PostMd), Append(PostPath(id), MetaJson)}
                    |-> f[q]],
          value |-> TRUE]

\* delete(id): false when the path is no directory, else remove it recursively
folderDelete(f, id) ==
    LET postPath == PostPath(id)
    IN IF ~IsDirectory(f, postPath) THEN [threw |-> FALSE, fs |-> f, value |-> FALSE]
       ELSE LET r == removeAll(f, postPath)
            IN [threw |-> FALSE, fs |-> r.fs, value |-> r.ok]

(***************************************************************************)
(* Inputs                                                                  *)
(***************************************************************************)
Str_a == <<"a">>
Str_x == <<"x">>
\* slug "a-b"
Title_A_b == <<"A"," ","b","!">>
\* a title with no word character: its slug is empty
Title_punct == <<"?">>
Title_new == <<"n">>

Content_plain == <<"x">>
Content_new == <<"y">>
\* "---\nslug: a/b\n---\nx"
Content_fmSlug == FmOpen \o <<"s","l","u","g",":"," ","a","/","b">> \o FmClose \o <<"x">>
\* "---\ntitle: t\ndraft: false\n---\nx"
Content_fmTitle ==
    FmOpen \o <<"t","i","t","l","e",":"," ","t","\n","d","r","a","f","t",":"," ","f","a","l","s","e">>
           \o FmClose \o <<"x">>
\* "---\nq\n---\nx": a block without any "key: value" line
Content_fmEmpty == FmOpen \o <<"q">> \o FmClose \o <<"x">>

Titles == {Str_a, Title_punct}
Contents == {Content_plain, Content_fmSlug}

Id_a == <<"a">>
Id_a1 == <<"a","-","1">>
Id_dash1 == <<"-","1">>
Id_a_b == <<"a","/","b">>
Id_a_images == <<"a","/","i","m","a","g","e","s">>
Id_a_postmd == <<"a","/","p","o","s","t",".","m","d">>
Id_unknown == <<"z">>

Ids == {Id_a, Id_a_b, Id_a_images, Id_a_postmd, Id_unknown}

\* a JSON object {title, content}; a field that is absent is undefined
Data(title, content) == [isNull |-> FALSE, title |-> title, content |-> content]
\* the JSON value null
NullData == [isNull |-> TRUE, title |-> JsUndefined, content |-> JsUndefined]

UpdateData ==
    {Data(Title_new, JsUndefined), Data(JsUndefined, Content_new)}

(***************************************************************************)
(* The store as its callers see it                                         *)
(***************************************************************************)
\* the directories that hold a post: readable metadata and content
PostDirs(f) == {d \in DOMAIN f : IsDirectory(f, d) /\ MetaReadable(f, d) /\ ContentReadable(f, d)}

\* the post folders: the directories directly inside the posts directory with
\* readable metadata
PostFolders(f) == {d \in Children(f, PostsDir) : IsDirectory(f, d) /\ MetaReadable(f, d)}

\* the number of post folders ever materialised and not removed
NumPosts(f) == Cardinality({d \in DOMAIN f : Exists(f, Append(d, PostMd))})

(***************************************************************************)
(* The command line: main parses the flags, loads config.json and starts   *)
(* the server.  cli is the position of main and what it has computed.      *)
(***************************************************************************)
DEFAULT_PORT == 7777

\* NaN, and the absent (undefined) number of a config field
NaN == 0 - 1
NoPort == 0 - 2

DigitValue(c) == CHOOSE d \in 0..9 : DigitChar(d) = c

\* the value of the longest prefix of decimal digits of s, NaN when it is empty
RECURSIVE DigitsValue(_, _, _)
DigitsValue(s, i, acc) ==
    IF i > Len(s) \/ s[i] \notin Digits
    THEN (IF i = 1 THEN NaN ELSE acc)
    ELSE DigitsValue(s, i + 1, acc * 10 + DigitValue(s[i]))

RECURSIVE SkipSpaces(_)
SkipSpaces(s) == IF s # <<>> /\ s[1] = " " THEN SkipSpaces(Tail(s)) ELSE s

\* parseInt(s, 10) on a string without a sign
parseInt(s) == DigitsValue(SkipSpaces(s), 1, 0)

\* Deno.args as parseArgs reads them: the value given to --port or -p
\* (JsUndefined when the flag is absent), --help, --no-open
Args(port, help, noOpen) == [port |-> port, help |-> help, noOpen |-> noOpen]

\* the flag is taken as given whatever its value
portFlagGiven(args) == args.port # JsUndefined

\* parseArgs with default {port: DEFAULT_PORT.toString()}
flagsPort(args) == IF args.port = JsUndefined THEN Decimal(DEFAULT_PORT) ELSE args.port

\* isNaN(port) || port < 1 || port > 65535
invalidPort(port) == port = NaN \/ port < 1 \/ port > 65535

\* x ?? y on numbers
Nullish(x, y) == IF x = NoPort THEN y ELSE x

\* flags.port !== DEFAULT_PORT.toString() ? port : (config.port ?? port)
finalPortOf(args, config) ==
    IF flagsPort(args) # Decimal(DEFAULT_PORT)
    THEN parseInt(flagsPort(args))
    ELSE Nullish(config.port, parseInt(flagsPort(args)))

\* !flags["no-open"] && (config.autoOpen ?? true)
shouldOpenBrowser(args, config) ==
    ~args.noOpen /\ (IF config.autoOpen = "undefined" THEN TRUE ELSE config.autoOpen = "true")

NoArgs == Args(JsUndefined, FALSE, FALSE)
\* loadConfig when config.json is missing or unparseable: {}
EmptyConfig == [port |-> NoPort, autoOpen |-> "undefined"]

NotStarted ==
    [pc |-> "idle", args |-> NoArgs, config |-> EmptyConfig, finalPort |-> NoPort,
     opened |-> FALSE]

(***************************************************************************)
(* State machine: the folder-layout PostManager called directly            *)
(* fs is the disk, clock is Date.now(), op names the last call.            *)
(***************************************************************************)
\* the calls in progress: at most two, each at a position pc of its code with
\* the arguments it was given and what it has read so far
Procs == {1, 2}

IdleProc ==
    [call |-> "none", pc |-> "idle", id |-> <<>>, data |-> NullData,
     post |-> NoPost, meta |-> NoJson, result |-> "none",
     slug |-> <<>>, counter |-> 0]

Init ==
    /\ fs = [p \in {<<>>, WorkDir} |-> DirEntry]
    /\ clock = 0
    /\ op = "none"
    /\ procs = [p \in Procs |-> IdleProc]
    /\ cli = NotStarted

\* time passes
Tick ==
    /\ clock < MaxClock
    /\ clock' = clock + 1
    /\ UNCHANGED <<fs, op, procs, cli>>

Create(title, content) ==
    /\ NumPosts(fs) < MaxPosts
    /\ op' = "create"
    /\ fs' = folderCreate(fs, Data(title, content), clock).fs
    /\ UNCHANGED <<clock, procs, cli>>

Get(id) ==
    /\ op' = "get"
    /\ UNCHANGED <<fs, clock, procs, cli>>

List(entries) ==
    /\ op' = "list"
    /\ fs' = folderList(fs, entries).fs
    /\ UNCHANGED <<clock, procs, cli>>

Update(id, data) ==
    /\ op' = "update"
    /\ fs' = folderUpdate(fs, id, data, clock).fs
    /\ UNCHANGED <<clock, procs, cli>>

Delete(id) ==
    /\ op' = "delete"
    /\ fs' = folderDelete(fs, id).fs
    /\ UNCHANGED <<clock, procs, cli>>

CreateStep == \E title \in Titles, content \in Contents : Create(title, content)
GetStep == \E id \in Ids : Get(id)
ListStep == \E entries \in ReadDirOrders(fs) : List(entries)
UpdateStep == \E id \in Ids, data \in UpdateData : Update(id, data)
DeleteStep == \E id \in Ids : Delete(id)

Next == Tick \/ CreateStep \/ GetStep \/ ListStep \/ UpdateStep \/ DeleteStep

Spec == Init /\ [][Next]_vars

(***************************************************************************)
(* Claims about the folder-layout PostManager                              *)
(***************************************************************************)
MetaOf(f, d) == f[Append(d, MetaJson)].json

\* the ids of the posts stored
StoredIds(f) == {MetaOf(f, d).id : d \in PostDirs(f)}

FrontmatterFree(content) == FmMatch(content) = 0

\* C1 as amended: no two stored posts have the same id; every create returns an
\* id that no stored post had when it was called; a create with frontmatter-free
\* content and a title whose slug s is not empty returns s when no directory s
\* exists in the posts directory and s-1 when s exists and s-1 does not; a title
\* whose slug is empty gets -1, then -2.
C1_UniqueIds ==
    /\ \A d1, d2 \in PostDirs(fs) : d1 # d2 => MetaOf(fs, d1).id # MetaOf(fs, d2).id
    /\ \A title \in Titles, content \in Contents :
         LET r == folderCreate(fs, Data(title, content), clock)
             s == generateSlug(title)
             s1 == s \o <<"-","1">>
             s2 == s \o <<"-","2">>
             taken(x) == IsDirectory(fs, PostPath(x))
         IN ~r.threw =>
              /\ r.value.id \notin StoredIds(fs)
              /\ FrontmatterFree(content) /\ s # <<>> =>
                   /\ ~taken(s) => r.value.id = s
                   /\ taken(s) /\ ~taken(s1) => r.value.id = s1
              /\ FrontmatterFree(content) /\ s = <<>> =>
                   /\ ~taken(s1) => r.value.id = s1
                   /\ taken(s1) /\ ~taken(s2) => r.value.id = s2

\* C1 as stated: ids are unique, a create returns an id no stored post has, and
\* two creates with the same title and frontmatter-free content return slug and
\* slug-1: the first, on a store without posts, returns the slug of the title,
\* and the second, on the store holding that post alone, returns slug-1.
C1_Original ==
    [][\A title \in Titles, content \in Contents :
         Create(title, content) =>
           LET r == folderCreate(fs, Data(title, content), clock)
               s == generateSlug(title)
           IN ~r.threw =>
                /\ r.value.id \notin StoredIds(fs)
                /\ \A d1, d2 \in PostDirs(fs') :
                     d1 # d2 => MetaOf(fs', d1).id # MetaOf(fs', d2).id
                /\ FrontmatterFree(content) =>
                     /\ StoredIds(fs) = {} => r.value.id = s
                     /\ StoredIds(fs) = {s} /\ Cardinality(PostDirs(fs)) = 1
                          => r.value.id = s \o <<"-","1">>]_vars

\* two creates with the title "a" have acted: the posts a and a-1 are stored
C1_Witness ==
    /\ op = "create"
    /\ folderGet(fs, Id_a) # NoPost
    /\ folderGet(fs, Id_a1) # NoPost
    /\ folderGet(fs, Id_a).title = Str_a
    /\ folderGet(fs, Id_a1).title = Str_a

\* C2: create(title, content) followed by get(returned id) returns content that
\* includes the original body text and a frontmatter block carrying the title.
C2_RoundTrip ==
    [][\A title \in Titles, content \in Contents :
         Create(title, content) =>
           LET r == folderCreate(fs, Data(title, content), clock)
               got == folderGet(fs', r.value.id)
           IN ~r.threw =>
                /\ got # NoPost
                /\ Includes(got.content, parseFrontmatter(content).body)
                /\ FmGet(parseFrontmatter(got.content).frontmatter, TitleKey) = title]_vars

\* C5: update(id, {title: T}) on an existing post changes only the stored title
\* and updatedAt: get(id) afterwards has the same id, createdAt and content, the
\* title T and the updatedAt of the call, and no other file changes.
C5_TitleOnlyUpdate ==
    \A id \in Ids :
        LET before == folderGet(fs, id)
            r == folderUpdate(fs, id, Data(Title_new, JsUndefined), clock)
            after == folderGet(r.fs, id)
            metaFile == Append(PostPath(id), MetaJson)
        IN before # NoPost =>
             /\ ~r.threw
             /\ after = [before EXCEPT !.title = Title_new, !.updatedAt = clock]
             /\ r.value = after
             /\ DOMAIN r.fs = DOMAIN fs
             /\ \A p \in DOMAIN fs : p # metaFile => r.fs[p] = fs[p]
             /\ r.fs[metaFile].json.slug = fs[metaFile].json.slug

\* a title-only update has acted on a post created earlier
C5_Witness ==
    /\ op = "update"
    /\ \E id \in Ids :
         LET post == folderGet(fs, id)
         IN /\ post # NoPost
            /\ post.title = Title_new
            /\ post.content \in Contents
            /\ post.updatedAt > post.createdAt

\* C6: delete(id) returns true exactly when get(id) would have returned a post,
\* and then get(id) is absent and list() omits it; otherwise it returns false
\* and leaves the store unchanged.
C6_DeleteIffPost ==
    [][\A id \in Ids :
         Delete(id) =>
           LET r == folderDelete(fs, id)
           IN /\ ~r.threw
              /\ r.value = (folderGet(fs, id) # NoPost)
              /\ r.value =>
                   /\ folderGet(fs', id) = NoPost
                   /\ \A entries \in ReadDirOrders(fs') :
                        \A i \in 1..Len(folderList(fs', entries).value) :
                            folderList(fs', entries).value[i].folder # id
              /\ ~r.value => fs' = fs]_vars

\* C7: list() returns exactly one summary per stored post with valid metadata,
\* in descending order of createdAt, whatever order readDir enumerates: the
\* summaries are those of the posts that get() resolves.
C7_ListSorted ==
    \A entries \in ReadDirOrders(fs) :
        LET l == folderList(fs, entries).value
        IN /\ \A i \in 1..(Len(l) - 1) : l[i].createdAt >= l[i+1].createdAt
           /\ Len(l) = Cardinality(PostDirs(fs))
           /\ \A d \in PostDirs(fs) :
                \E i \in 1..Len(l) :
                    /\ l[i].id = MetaOf(fs, d).id
                    /\ l[i].title = MetaOf(fs, d).title
                    /\ l[i].createdAt = MetaOf(fs, d).createdAt
                    /\ l[i].updatedAt = MetaOf(fs, d).updatedAt

\* what list() does return: one summary per folder directly inside the posts
\* directory whose meta.json parses, newest first
ListOfPostFolders ==
    \A entries \in ReadDirOrders(fs) :
        LET l == folderList(fs, entries).value
        IN /\ \A i \in 1..(Len(l) - 1) : l[i].createdAt >= l[i+1].createdAt
           /\ Len(l) = Cardinality(PostFolders(fs))
           /\ \A d \in PostFolders(fs) :
                \E i \in 1..Len(l) :
                    /\ l[i].folder = d[Len(d)]
                    /\ l[i].id = MetaOf(fs, d).id
                    /\ l[i].createdAt = MetaOf(fs, d).createdAt

(***************************************************************************)
(* The posts directory is a plain directory of the user's disk: other      *)
(* programs, and a crash in the middle of a write, can leave a folder      *)
(* without meta.json, a meta.json that does not parse, or a stray file.    *)
(***************************************************************************)
\* text that JSON.parse rejects
Unparseable == <<"{">>

Id_stray == Id_unknown

EnvCorruptMeta ==
    /\ \E d \in DOMAIN fs :
         /\ MetaReadable(fs, d)
         /\ fs' = [fs EXCEPT ![Append(d, MetaJson)] = TextEntry(Unparseable)]
    /\ op' = "env"
    /\ UNCHANGED <<clock, procs, cli>>

EnvRemoveMeta ==
    /\ \E d \in DOMAIN fs :
         /\ MetaReadable(fs, d)
         /\ fs' = [p \in DOMAIN fs \ {Append(d, MetaJson)} |-> fs[p]]
    /\ op' = "env"
    /\ UNCHANGED <<clock, procs, cli>>

EnvStrayFile ==
    /\ IsDirectory(fs, PostsDir)
    /\ ~Exists(fs, PostPath(Id_stray))
    /\ fs' = writeFile(fs, PostPath(Id_stray), TextEntry(Str_x)).fs
    /\ op' = "env"
    /\ UNCHANGED <<clock, procs, cli>>

NextEnv == Next \/ EnvCorruptMeta \/ EnvRemoveMeta \/ EnvStrayFile

SpecEnv == Init /\ [][NextEnv]_vars

\* the folder d holds a meta.json that is a file of parseable JSON
C8_ValidMeta(d) ==
    /\ d \in DOMAIN fs
    /\ fs[d].kind = "dir"
    /\ Append(d, MetaJson) \in DOMAIN fs
    /\ fs[Append(d, MetaJson)].kind = "json"

\* C8: an id that is unknown, names a non-directory, or names a folder whose
\* meta.json is missing or unparseable is never reported as a post: get(id) is
\* null, and list() omits every such folder while it still returns every other
\* valid post, that is every post get() resolves.
C8_InvalidNeverReported ==
    /\ \A id \in Ids : ~C8_ValidMeta(PostPath(id)) => folderGet(fs, id) = NoPost
    /\ \A entries \in ReadDirOrders(fs) :
         LET r == folderList(fs, entries)
             listed == {r.value[i].id : i \in 1..Len(r.value)}
         IN /\ ~r.threw
            /\ \A d \in Children(fs, PostsDir) :
                 ~C8_ValidMeta(d) => \A i \in 1..Len(r.value) : r.value[i].folder # d[Len(d)]
            /\ \A d \in PostDirs(fs) : MetaOf(fs, d).id \in listed

\* what does hold: get is null for every such id, and list() returns exactly the
\* folders directly inside the posts directory whose meta.json parses
InvalidFoldersSkipped ==
    /\ \A id \in Ids : ~C8_ValidMeta(PostPath(id)) => folderGet(fs, id) = NoPost
    /\ \A entries \in ReadDirOrders(fs) :
         LET r == folderList(fs, entries)
             listed == {r.value[i].folder : i \in 1..Len(r.value)}
         IN /\ ~r.threw
            /\ \A d \in Children(fs, PostsDir) : (d[Len(d)] \in listed) <=> C8_ValidMeta(d)

(***************************************************************************)
(* Images of a post (folder layout).  uploadImage and listImages are not   *)
(* part of the source at hand: they follow the specification, section 4.2  *)
(* and the persisted layout of section 6: <postsDir>/<id>/images/<name>.   *)
(***************************************************************************)
\* the images folder of post id
ImagesOf(id) == Append(PostPath(id), ImagesDir)

\* the relative path of an image: images/<post-id>/<file>
ImagePath(id, file) == ImagesDir \o <<"/">> \o id \o <<"/">> \o file

\* uploadImage(id, bytes, extension), uuid being the name generated: throws when
\* the post does not exist; writes <uuid>.<extension> into the images folder of
\* the post and returns its relative path
uploadImage(f, id, bytes, extension, uuid) ==
    IF folderGet(f, id) = NoPost THEN Thrown(f)
    ELSE IF ~ensureDir(f, ImagesOf(id)).ok THEN Thrown(f)
    ELSE Outcome(writeFile(ensureDir(f, ImagesOf(id)).fs,
                           ResolveFrom(ImagesOf(id), uuid \o <<".">> \o extension),
                           TextEntry(bytes)),
                 ImagePath(id, uuid \o <<".">> \o extension))

\* the orders in which readDir may enumerate the images folder of post id
ImageDirOrders(f, id) ==
    LET names == Children(f, ImagesOf(id))
        n == Cardinality(names)
    IN {o \in [1..n -> names] : \A i, j \in 1..n : i # j => o[i] # o[j]}

\* listImages(id), readDir enumerating the images folder in the order entries:
\* the relative paths of its files; [] when the folder is absent
listImages(f, id, entries) ==
    IF ~IsDirectory(f, ImagesOf(id)) THEN <<>>
    ELSE ConcatMap(Len(entries), LAMBDA i :
            IF IsFile(f, entries[i])
            THEN <<ImagePath(id, entries[i][Len(entries[i])])>> ELSE <<>>)

(***************************************************************************)
(* HTTP server: the request handler of createServer over the folder-layout *)
(* PostManager.  A request is [method, path, body]; the body is absent,    *)
(* text that is not JSON, the JSON value null, a JSON object, or form data *)
(* with or without a file as its part "image".  A response is              *)
(* [status, contentType, body], the body named by its kind.                *)
(***************************************************************************)
HealthPath == <<"/","h","e","a","l","t","h">>
ApiPrefix == <<"/","a","p","i","/">>
ApiPosts == <<"/","a","p","i","/","p","o","s","t","s">>
ImagesPrefix == <<"/","i","m","a","g","e","s","/">>
RootPath == <<"/">>
IndexHtml == <<"/","i","n","d","e","x",".","h","t","m","l">>

\* the files served from the bundled assets or ./static
StaticAssets == {IndexHtml}

\* formData.get("image"): no such part, or a File with its type and name
NoFile == [present |-> FALSE, type |-> JsUndefined, name |-> JsUndefined]
FilePart(type, name) == [present |-> TRUE, type |-> type, name |-> name]

NoBody == [kind |-> "none", title |-> JsUndefined, content |-> JsUndefined, file |-> NoFile]
InvalidJsonBody ==
    [kind |-> "invalid", title |-> JsUndefined, content |-> JsUndefined, file |-> NoFile]
NullBody == [kind |-> "null", title |-> JsUndefined, content |-> JsUndefined, file |-> NoFile]
ObjectBody(title, content) ==
    [kind |-> "object", title |-> title, content |-> content, file |-> NoFile]
FormBody(file) == [kind |-> "form", title |-> JsUndefined, content |-> JsUndefined, file |-> file]

\* request.json(): throws on an absent body and on text that is not JSON
JsonThrows(body) == body.kind \in {"none", "invalid", "form"}
\* request.formData(): throws on a body that is not form data
FormDataThrows(body) == body.kind # "form"
JsonOf(body) == IF body.kind = "null" THEN NullData ELSE Data(body.title, body.content)

Response(status, contentType, body) ==
    [status |-> status, contentType |-> contentType, body |-> body]

jsonResponse(body, status) == Response(status, "application/json", body)
errorResponse == jsonResponse("error", 400)
notFoundResponse == Response(404, "text/plain", "Not Found")
methodNotAllowed == Response(405, "text/plain", "Method Not Allowed")

\* every path under /api/posts taken as a route
apiMatchPrefix(path) ==
    [matched |-> StartsWith(path, ApiPosts), postId |-> SubSeq(path, Len(ApiPosts) + 2, Len(path))]

\* path.match(/^\/api\/posts(?:\/([^\/]+))?$/): the match and its group
apiMatch(path) ==
    LET rest == SubSeq(path, Len(ApiPosts) + 2, Len(path))
    IN IF path = ApiPosts THEN [matched |-> TRUE, postId |-> JsUndefined]
       ELSE IF /\ StartsWith(path, ApiPosts \o <<"/">>)
               /\ rest # <<>>
               /\ ~Includes(rest, <<"/">>)
            THEN [matched |-> TRUE, postId |-> rest]
       ELSE [matched |-> FALSE, postId |-> JsUndefined]

\* the static branch of the handler, for a path that does not start with /api/
serveStatic(f, path) ==
    LET staticPath == IF path = RootPath THEN IndexHtml ELSE path
    IN IF StartsWith(staticPath, ImagesPrefix)
       THEN IF IsFile(f, ResolveFrom(PostsDir, SubSeq(staticPath, 2, Len(staticPath))))
            THEN Response(200, "file", "file")
            ELSE notFoundResponse
       ELSE IF staticPath \in StaticAssets THEN Response(200, "file", "file")
       ELSE notFoundResponse

Reply(response, f) == [response |-> response, fs |-> f]

\* case "POST": the response to the outcome r of create
createReply(r) ==
    IF r.threw THEN Reply(errorResponse, r.fs) ELSE Reply(jsonResponse("post", 201), r.fs)

\* case "PUT": the response to the outcome r of update
updateReply(r) ==
    IF r.threw THEN Reply(errorResponse, r.fs)
    ELSE IF r.value # NoPost THEN Reply(jsonResponse("post", 200), r.fs)
    ELSE Reply(notFoundResponse, r.fs)

\* case "DELETE": the response to the outcome r of delete
deleteReply(r) ==
    IF r.value THEN Reply(Response(204, "none", "none"), r.fs)
    ELSE Reply(notFoundResponse, r.fs)

\* the switch on the method for a path that matched the posts routes
apiRoute(f, method, postId, body, entries, now) ==
    IF method = "GET"
    THEN IF Truthy(postId)
         THEN IF folderGet(f, postId) # NoPost
              THEN Reply(jsonResponse("post", 200), f)
              ELSE Reply(notFoundResponse, f)
         ELSE Reply(jsonResponse("posts", 200), folderList(f, entries).fs)
    ELSE IF method = "POST"
    THEN IF Truthy(postId) THEN Reply(methodNotAllowed, f)
         ELSE IF JsonThrows(body) THEN Reply(errorResponse, f)
         ELSE createReply(folderCreate(f, JsonOf(body), now))
    ELSE IF method = "PUT"
    THEN IF ~Truthy(postId) THEN Reply(methodNotAllowed, f)
         ELSE IF JsonThrows(body) THEN Reply(errorResponse, f)
         ELSE updateReply(folderUpdate(f, postId, JsonOf(body), now))
    ELSE IF method = "DELETE"
    THEN IF ~Truthy(postId) THEN Reply(methodNotAllowed, f)
         ELSE deleteReply(folderDelete(f, postId))
    ELSE Reply(methodNotAllowed, f)

UploadSuffix == <<"/","u","p","l","o","a","d">>

\* path.match(/^\/api\/posts\/([^\/]+)\/upload$/): the match and its group
imageUploadMatch(path) ==
    LET postId == SubSeq(path, Len(ApiPosts) + 2, Len(path) - Len(UploadSuffix))
    IN IF /\ StartsWith(path, ApiPosts \o <<"/">>)
          /\ EndsWith(path, UploadSuffix)
          /\ Len(path) > Len(ApiPosts) + 1 + Len(UploadSuffix)
          /\ ~Includes(postId, <<"/">>)
       THEN [matched |-> TRUE, postId |-> postId]
       ELSE [matched |-> FALSE, postId |-> JsUndefined]

Type_png == <<"i","m","a","g","e","/","p","n","g">>
Type_jpeg == <<"i","m","a","g","e","/","j","p","e","g">>
Type_jpg == <<"i","m","a","g","e","/","j","p","g">>
Type_gif == <<"i","m","a","g","e","/","g","i","f">>
Type_webp == <<"i","m","a","g","e","/","w","e","b","p">>

Type_svg == <<"i","m","a","g","e","/","s","v","g","+","x","m","l">>
Type_text == <<"t","e","x","t","/","p","l","a","i","n">>

allowedTypesWithSvg == {Type_png, Type_jpeg, Type_jpg, Type_gif, Type_webp, Type_svg}

allowedTypes == {Type_png, Type_jpeg, Type_jpg, Type_gif, Type_webp}

Ext_png == <<"p","n","g">>

\* file.name.split(".").pop()?.toLowerCase() || "png"
extensionOf(name) ==
    LET last == ToLowerCase(Split(name, ".")[Len(Split(name, "."))])
    IN IF Truthy(last) THEN last ELSE Ext_png

ImageBytes == <<"b">>

\* POST on the upload route: the response to the outcome r of uploadImage
uploadReply(r) ==
    IF r.threw THEN Reply(errorResponse, r.fs) ELSE Reply(jsonResponse("image", 201), r.fs)

\* the upload route for a path that matched it; uuid is the name uploadImage
\* generates
uploadRoute(f, method, postId, body, uuid) ==
    IF method = "POST"
    THEN IF FormDataThrows(body) THEN Reply(errorResponse, f)
         ELSE IF ~body.file.present THEN Reply(errorResponse, f)
         ELSE IF body.file.type \notin allowedTypes THEN Reply(errorResponse, f)
         ELSE uploadReply(uploadImage(f, postId, ImageBytes, extensionOf(body.file.name), uuid))
    ELSE IF method = "GET" THEN Reply(jsonResponse("images", 200), f)
    ELSE Reply(methodNotAllowed, f)

\* the handler: [response, fs]
handler(f, req, uuid, entries, now) ==
    IF req.path = HealthPath THEN Reply(Response(200, "text/plain", "OK"), f)
    ELSE IF ~StartsWith(req.path, ApiPrefix) THEN Reply(serveStatic(f, req.path), f)
    ELSE IF imageUploadMatch(req.path).matched
    THEN uploadRoute(f, req.method, imageUploadMatch(req.path).postId, req.body, uuid)
    ELSE IF ~apiMatch(req.path).matched THEN Reply(notFoundResponse, f)
    ELSE apiRoute(f, req.method, apiMatch(req.path).postId, req.body, entries, now)

Methods == {"GET", "POST", "PUT", "DELETE", "PATCH"}

PostPathOf(id) == ApiPosts \o <<"/">> \o id

HttpIds == {Id_a, Id_unknown}

Paths ==
    {HealthPath, RootPath, <<"/","n">>, ImagesPrefix \o <<"a">>, ApiPosts, ApiPosts \o <<"/">>}
        \cup {PostPathOf(id) : id \in HttpIds}

\* the bodies of POST /api/posts
CreateBodies ==
    {InvalidJsonBody, NullBody}
        \cup {ObjectBody(t, c) : t \in {JsUndefined, JsNumber, Str_a},
                                 c \in {JsUndefined, JsNumber, Content_plain, Content_fmSlug}}

\* the bodies of PUT /api/posts/:id
UpdateBodies ==
    {InvalidJsonBody, NullBody, ObjectBody(JsUndefined, JsUndefined),
     ObjectBody(Title_new, JsUndefined), ObjectBody(JsUndefined, Content_new)}

BodiesOf(method) ==
    IF method = "POST" THEN CreateBodies
    ELSE IF method = "PUT" THEN UpdateBodies
    ELSE {NoBody}

Request(method, path, body) == [method |-> method, path |-> path, body |-> body]

Requests == {Request(m, p, b) : m \in Methods, p \in Paths, b \in CreateBodies \cup UpdateBodies \cup {NoBody}}

\* the names crypto.randomUUID() may give an image
Uuids == {<<"u","1">>, <<"u","2">>}

Handle(req, uuid, entries) ==
    /\ (req.method = "POST" /\ req.path = ApiPosts) => NumPosts(fs) < MaxPosts
    /\ op' = "http"
    /\ fs' = handler(fs, req, uuid, entries, clock).fs
    /\ UNCHANGED <<clock, procs, cli>>

HandleStep ==
    \E req \in Requests, uuid \in Uuids, entries \in ReadDirOrders(fs) :
        req.body \in BodiesOf(req.method) /\ Handle(req, uuid, entries)

NextHttp == Tick \/ HandleStep

SpecHttp == Init /\ [][NextHttp]_vars

\* C9: for an id that does not resolve to a post, GET, PUT with a JSON object as
\* body, and DELETE on /api/posts/:id respond 404 and leave the store unchanged;
\* for an id that resolves they respond 200, 200 and 204.
C9_StatusByResolution ==
    [][\A req \in Requests, uuid \in Uuids, entries \in ReadDirOrders(fs) :
         (/\ Handle(req, uuid, entries)
          /\ Truthy(apiMatch(req.path).postId)
          /\ req.method \in {"GET", "PUT", "DELETE"}
          /\ req.body.kind \in {"none", "object"})
         => LET resolves == folderGet(fs, apiMatch(req.path).postId) # NoPost
                status == handler(fs, req, uuid, entries, clock).response.status
            IN /\ ~resolves => status = 404 /\ fs' = fs
               /\ resolves => status = IF req.method = "DELETE" THEN 204 ELSE 200]_vars

\* C10: POST /api/posts whose body is not JSON, or is JSON without a string
\* title or without a string content, responds 400 with a JSON error body and
\* adds no post; a 201 is given only to a body with both.
C10_BadBodyRejected ==
    [][\A req \in Requests, uuid \in Uuids, entries \in ReadDirOrders(fs) :
         (Handle(req, uuid, entries) /\ req.method = "POST" /\ req.path = ApiPosts)
         => LET good == /\ req.body.kind = "object"
                        /\ IsString(req.body.title)
                        /\ IsString(req.body.content)
                resp == handler(fs, req, uuid, entries, clock).response
            IN /\ resp.status = 201 => good
               /\ ~good => /\ resp = Response(400, "application/json", "error")
                           /\ PostDirs(fs') = PostDirs(fs)]_vars

(***************************************************************************)
(* PostManager, flat-file layout: <postsDir>/<slug>.md, the metadata kept  *)
(* in the frontmatter of the file.                                         *)
(***************************************************************************)
MdExt == <<".","m","d">>
CreatedAtKey == <<"c","r","e","a","t","e","d","A","t">>
UpdatedAtKey == <<"u","p","d","a","t","e","d","A","t">>
Untitled == <<"U","n","t","i","t","l","e","d">>

\* join(this.postsDir, `${id}.md`)
FlatPostFile(id) == ResolveFrom(PostsDir, id \o MdExt)

\* the array of lines 82-92 joined by "\n"
defaultFrontmatter(title, slug, now) ==
    FmOpen
    \o <<"t","i","t","l","e",":"," ">> \o title \o <<"\n">>
    \o <<"s","l","u","g",":"," ">> \o slug \o <<"\n">>
    \o <<"p","u","b","l","i","s","h","D","a","t","e",":"," ">> \o publishDateOf(now) \o <<"\n">>
    \o <<"c","r","e","a","t","e","d","A","t",":"," ">> \o toISOString(now) \o <<"\n">>
    \o <<"u","p","d","a","t","e","d","A","t",":"," ">> \o toISOString(now) \o <<"\n">>
    \o <<"d","r","a","f","t",":"," ","t","r","u","e">> \o <<"\n">>
    \o FmOpen

addDefaultFrontmatterWholeContent(content, title, slug, now) ==
    IF Len(parseFrontmatter(content).frontmatter) > 0
    THEN content
    ELSE defaultFrontmatter(title, slug, now) \o content

addDefaultFrontmatterAlways(content, title, slug, now) ==
    defaultFrontmatter(title, slug, now) \o parseFrontmatter(content).body

\* content as it is when its frontmatter has a field, else the default block
\* followed by the body
addDefaultFrontmatter(content, title, slug, now) ==
    IF Len(parseFrontmatter(content).frontmatter) > 0
    THEN content
    ELSE defaultFrontmatter(title, slug, now) \o parseFrontmatter(content).body

\* stat(join(postsDir, `${slug}.md`)).isFile, false when stat throws
flatSlugExists(f, slug) == IsFile(f, FlatPostFile(slug))

flatUniqueSlugOf(f, slug) ==
    IF ~flatSlugExists(f, slug) THEN slug
    ELSE LET n == Cardinality(DOMAIN f) + 1
             free == {k \in 1..n : ~flatSlugExists(f, slug \o <<"-">> \o Decimal(k))}
         IN slug \o <<"-">> \o Decimal(CHOOSE k \in free : \A j \in free : k <= j)

\* new Date(frontmatter[key] || new Date().toISOString()).getTime()
FmDate(fm, key, now) ==
    IF Truthy(FmGet(fm, key)) THEN parseDate(FmGet(fm, key)) ELSE now

\* create from "const postFile" on: the file written and the post returned
flatWritePost(f, uniqueSlug, contentWithFrontmatter, frontmatter, data, now) ==
    Outcome(writeFile(f, FlatPostFile(uniqueSlug), TextEntry(contentWithFrontmatter)),
            [id |-> uniqueSlug, folder |-> uniqueSlug,
             title |-> data.title, content |-> contentWithFrontmatter,
             createdAt |-> FmDate(frontmatter, CreatedAtKey, now),
             updatedAt |-> FmDate(frontmatter, UpdatedAtKey, now)])

\* create once the unique slug is found
flatCreateAs(f, uniqueSlug, data, now) ==
    flatWritePost(
        f, uniqueSlug,
        addDefaultFrontmatter(data.content, data.title, uniqueSlug, now),
        parseFrontmatter(addDefaultFrontmatter(data.content, data.title, uniqueSlug, now)).frontmatter,
        data, now)

flatCreate(f, data, now) ==
    IF ~ensureDir(f, PostsDir).ok THEN Thrown(f)
    \* generateSlug(data.title): data.title on null and toLowerCase on a non-string throw
    ELSE IF data.isNull \/ ~IsString(data.title) THEN Thrown(ensureDir(f, PostsDir).fs)
    \* parseFrontmatter(content): content.match on a non-string throws
    ELSE IF ~IsString(data.content) THEN Thrown(ensureDir(f, PostsDir).fs)
    ELSE flatCreateAs(ensureDir(f, PostsDir).fs,
                      flatUniqueSlugOf(ensureDir(f, PostsDir).fs, generateSlug(data.title)),
                      data, now)

\* the post built from the content of the file of slug and its frontmatter
flatPostFrom(content, frontmatter, slug, now) ==
    [id |-> IF Truthy(FmGet(frontmatter, SlugKey)) THEN FmGet(frontmatter, SlugKey) ELSE slug,
     folder |-> slug,
     title |-> IF Truthy(FmGet(frontmatter, TitleKey))
               THEN FmGet(frontmatter, TitleKey) ELSE Untitled,
     content |-> content,
     createdAt |-> FmDate(frontmatter, CreatedAtKey, now),
     updatedAt |-> FmDate(frontmatter, UpdatedAtKey, now)]

\* the post read from file, which belongs to slug
flatPostOf(f, file, slug, now) ==
    flatPostFrom(f[file].text, parseFrontmatter(f[file].text).frontmatter, slug, now)

\* get(id): null when <id>.md is no file
flatGet(f, id, now) ==
    IF ~IsFile(f, FlatPostFile(id)) THEN NoPost ELSE flatPostOf(f, FlatPostFile(id), id, now)

\* the for loop of list: a summary for each file entry whose name ends in ".md"
flatSummaries(f, entries, now) ==
    ConcatMap(Len(entries), LAMBDA i :
        LET name == entries[i][Len(entries[i])]
            slug == SubSeq(name, 1, Len(name) - 3)
        IN IF IsFile(f, entries[i]) /\ EndsWith(name, MdExt)
           THEN <<[flatPostOf(f, entries[i], slug, now) EXCEPT !.content = JsUndefined]>>
           ELSE <<>>)

\* list(), readDir enumerating the posts directory in the order entries;
\* [] when ensureDir throws
flatList(f, entries, now) ==
    LET e0 == ensureDir(f, PostsDir)
    IN IF ~e0.ok THEN [threw |-> FALSE, fs |-> f, value |-> <<>>]
       ELSE [threw |-> FALSE, fs |-> e0.fs, value |-> SortPosts(flatSummaries(f, entries, now))]

\* a key that Object.entries enumerates first, in ascending numeric order: the
\* canonical decimal form of an array index
IsArrayIndex(k) ==
    /\ Len(k) \in 1..9
    /\ \A i \in 1..Len(k) : k[i] \in Digits
    /\ Len(k) > 1 => k[1] # "0"

\* decimal strings without leading zeros: a < b
DecimalLess(a, b) ==
    \/ Len(a) < Len(b)
    \/ /\ Len(a) = Len(b)
       /\ \E i \in 1..Len(a) :
            /\ SubSeq(a, 1, i - 1) = SubSeq(b, 1, i - 1)
            /\ \E x, y \in 0..9 : DigitChar(x) = a[i] /\ DigitChar(y) = b[i] /\ x < y

\* Object.entries(frontmatter): array-index keys ascending, then the others in
\* insertion order
ObjectEntries(fm) ==
    LET idx == {i \in 1..Len(fm) : IsArrayIndex(fm[i].k)}
        rank(i) == 1 + Cardinality({j \in idx : DecimalLess(fm[j].k, fm[i].k)})
        first == [r \in 1..Cardinality(idx) |-> fm[CHOOSE i \in idx : rank(i) = r]]
    IN first \o ConcatMap(Len(fm), LAMBDA i : IF i \in idx THEN <<>> ELSE <<fm[i]>>)

\* entries.map(([key, val]) => `${key}: ${val}`).join("\n")
frontmatterTextOf(entries) ==
    ConcatMap(Len(entries), LAMBDA i :
        (IF i > 1 THEN <<"\n">> ELSE <<>>) \o entries[i].k \o <<":"," ">> \o entries[i].v)

updateFrontmatterField(content, field, value) ==
    FmOpen
    \o frontmatterTextOf(ObjectEntries(FmSet(parseFrontmatter(content).frontmatter, field, value)))
    \o FmClose \o parseFrontmatter(content).body

\* update from "await Deno.writeTextFile" on: the file rewritten and the post returned
flatWriteUpdated(f, id, post, updatedContent, frontmatter, now) ==
    Outcome(writeFile(f, FlatPostFile(id), TextEntry(updatedContent)),
            [id |-> post.id, folder |-> post.folder,
             title |-> IF Truthy(FmGet(frontmatter, TitleKey))
                       THEN FmGet(frontmatter, TitleKey) ELSE post.title,
             content |-> updatedContent,
             createdAt |-> post.createdAt,
             updatedAt |-> FmDate(frontmatter, UpdatedAtKey, now)])

\* the content after the content, title and updatedAt steps of update
flatUpdatedContent(content, data, now) ==
    updateFrontmatterField(
        IF data.title # JsUndefined
        THEN updateFrontmatterField(
                IF data.content # JsUndefined THEN data.content ELSE content,
                TitleKey, data.title)
        ELSE IF data.content # JsUndefined THEN data.content ELSE content,
        UpdatedAtKey, toISOString(now))

\* update of the post that get(id) returned
flatUpdateFound(f, id, post, data, now) ==
    flatWriteUpdated(f, id, post, flatUpdatedContent(post.content, data, now),
                     parseFrontmatter(flatUpdatedContent(post.content, data, now)).frontmatter,
                     now)

\* update(id, data) at time now; data is null (isNull) or an object [title, content]
flatUpdate(f, id, data, now) ==
    IF flatGet(f, id, now) = NoPost THEN [threw |-> FALSE, fs |-> f, value |-> NoPost]
    \* data.content on null throws
    ELSE IF data.isNull THEN Thrown(f)
    ELSE flatUpdateFound(f, id, flatGet(f, id, now), data, now)

\* delete(id): false when <id>.md is no file, else remove it
flatDelete(f, id) ==
    IF ~IsFile(f, FlatPostFile(id)) THEN [threw |-> FALSE, fs |-> f, value |-> FALSE]
    ELSE LET r == removeAll(f, FlatPostFile(id))
         IN [threw |-> FALSE, fs |-> r.fs, value |-> r.ok]

(***************************************************************************)
(* State machine: the flat-file PostManager called directly                *)
(***************************************************************************)
Id_empty == <<>>

FlatContents == {Content_plain, Content_fmTitle, Content_fmEmpty, Content_fmSlug}
FlatIds == {Id_a, Id_a1, Id_empty, Id_unknown}

\* the files of the posts directory
FlatFiles(f) == {p \in Children(f, PostsDir) : IsFile(f, p)}

FlatCreate(title, content) ==
    /\ Cardinality(FlatFiles(fs)) < MaxPosts
    /\ op' = "flatCreate"
    /\ fs' = flatCreate(fs, Data(title, content), clock).fs
    /\ UNCHANGED <<clock, procs, cli>>

FlatGet(id) ==
    /\ op' = "flatGet"
    /\ UNCHANGED <<fs, clock, procs, cli>>

FlatList(entries) ==
    /\ op' = "flatList"
    /\ fs' = flatList(fs, entries, clock).fs
    /\ UNCHANGED <<clock, procs, cli>>

FlatUpdate(id, data) ==
    /\ op' = "flatUpdate"
    /\ fs' = flatUpdate(fs, id, data, clock).fs
    /\ UNCHANGED <<clock, procs, cli>>

FlatDelete(id) ==
    /\ op' = "flatDelete"
    /\ fs' = flatDelete(fs, id).fs
    /\ UNCHANGED <<clock, procs, cli>>

FlatCreateStep == \E title \in Titles, content \in FlatContents : FlatCreate(title, content)
FlatGetStep == \E id \in FlatIds : FlatGet(id)
FlatListStep == \E entries \in ReadDirOrders(fs) : FlatList(entries)
\* the updates of the flat-file layout: those of the folder layout and new
\* content whose frontmatter carries a slug of its own
FlatUpdateData == UpdateData \cup {Data(JsUndefined, Content_fmSlug)}

FlatUpdateStep == \E id \in FlatIds, data \in FlatUpdateData : FlatUpdate(id, data)
FlatDeleteStep == \E id \in FlatIds : FlatDelete(id)

NextFlat ==
    Tick \/ FlatCreateStep \/ FlatGetStep \/ FlatListStep \/ FlatUpdateStep \/ FlatDeleteStep

SpecFlat == Init /\ [][NextFlat]_vars

\* the block the claim C3 describes, line by line
C3_Block(title, id, now) ==
    LET lines == << <<"-","-","-">>,
                    <<"t","i","t","l","e",":"," ">> \o title,
                    <<"s","l","u","g",":"," ">> \o id,
                    <<"p","u","b","l","i","s","h","D","a","t","e",":"," ">> \o IsoDatePart \o <<"-","0","7",":","0","0">>,
                    <<"c","r","e","a","t","e","d","A","t",":"," ">> \o toISOString(now),
                    <<"u","p","d","a","t","e","d","A","t",":"," ">> \o toISOString(now),
                    <<"d","r","a","f","t",":"," ","t","r","u","e">>,
                    <<"-","-","-">> >>
    IN ConcatMap(Len(lines), LAMBDA i : lines[i] \o <<"\n">>)

C3_NoFields(content) == parseFrontmatter(content).frontmatter = <<>>

ContentsWithFields == {Content_fmTitle, Content_fmSlug}

\* C4: flat-file create with content that starts with a frontmatter block
\* holding at least one "key: value" line stores the content unchanged: the
\* file of the returned id, and get(returned id).content, equal the content
\* supplied, so every supplied field keeps its value and no field is added.
C4_FrontmatterPreserved ==
    \A title \in Titles, content \in ContentsWithFields :
        LET r == flatCreate(fs, Data(title, content), clock)
            got == flatGet(r.fs, r.value.id, clock)
        IN /\ ~r.threw
           /\ r.value.content = content
           /\ r.fs[FlatPostFile(r.value.id)].text = content
           /\ got # NoPost
           /\ got.content = content
           /\ FmGet(parseFrontmatter(got.content).frontmatter, <<"d","r","a","f","t">>)
                = FmGet(parseFrontmatter(content).frontmatter, <<"d","r","a","f","t">>)

\* create has stored content that came with the fields title and draft: false
C4_Witness ==
    /\ op = "flatCreate"
    /\ \E id \in FlatIds :
         /\ IsFile(fs, FlatPostFile(id))
         /\ fs[FlatPostFile(id)].text = Content_fmTitle
         /\ FmGet(parseFrontmatter(flatGet(fs, id, clock).content).frontmatter, <<"d","r","a","f","t">>)
              = <<"f","a","l","s","e">>


(***************************************************************************)
(* Ids and paths                                                           *)
(***************************************************************************)
UrlSafeChars == Range(LowerLetters) \cup Digits \cup {"_", "-"}

IsUrlSafe(s) == \A i \in 1..Len(s) : s[i] \in UrlSafeChars

\* C11: every id that the folder-layout create returns, for every title and
\* every content (a frontmatter slug included), consists only of lowercase
\* letters, digits, underscore and hyphen.
C11_UrlSafeIds ==
    [][\A title \in Titles, content \in Contents :
         Create(title, content) =>
           LET r == folderCreate(fs, Data(title, content), clock)
           IN ~r.threw => IsUrlSafe(r.value.id)]_vars


\* C14: in create, when the frontmatter of the content has a title field and no
\* slug field, the candidate slug is derived from the frontmatter title, not from
\* the title argument: the returned id is that slug, or that slug with a suffix
\* -k when the slug is taken.
C14_FrontmatterTitlePrecedence ==
    \A title \in Titles :
        LET r == folderCreate(fs, Data(title, Content_fmTitle), clock)
            s == generateSlug(FmGet(parseFrontmatter(Content_fmTitle).frontmatter, TitleKey))
        IN ~r.threw =>
             \/ r.value.id = s
             \/ /\ IsDirectory(fs, PostPath(s))
                /\ StartsWith(r.value.id, s \o <<"-">>)

(***************************************************************************)
(* State machine: the folder-layout PostManager called with slugs and ids  *)
(* that name places outside the post folders                               *)
(***************************************************************************)
\* "---\nslug: ../x\n---\nx"
Content_fmDotDot == FmOpen \o <<"s","l","u","g",":"," ",".",".","/","x">> \o FmClose \o <<"x">>

PathContents == {Content_plain, Content_fmSlug, Content_fmDotDot}
PathIds == {Id_a, Id_empty, Dot, DotDot}

PathCreateStep == \E title \in Titles, content \in PathContents : Create(title, content)
PathGetStep == \E id \in PathIds : Get(id)
PathUpdateStep == \E id \in PathIds, data \in UpdateData : Update(id, data)
PathDeleteStep == \E id \in PathIds : Delete(id)

NextPaths == Tick \/ PathCreateStep \/ PathGetStep \/ PathUpdateStep \/ PathDeleteStep

SpecPaths == Init /\ [][NextPaths]_vars

\* p is a direct child folder of the posts directory or lies below one
InPostFolder(p) == Len(p) > Len(PostsDir) /\ IsPrefix(PostsDir, p)

\* C12: every path that create, get, update and delete write to or remove is a
\* direct child folder of the posts directory or lies below one; apart from
\* that only the posts directory and its ancestors may be created, and nothing
\* else changes or is removed.
C12_PathsConfined ==
    [][\A p \in DOMAIN fs \cup DOMAIN fs' :
         (p \notin DOMAIN fs \/ p \notin DOMAIN fs' \/ fs[p] # fs'[p]) =>
            \/ InPostFolder(p)
            \/ IsPrefix(p, PostsDir) /\ p \notin DOMAIN fs /\ fs'[p] = DirEntry]_vars


\* "---\nslug: \n---\nx": a slug field that is empty
Content_fmSlugEmpty == FmOpen \o <<"s","l","u","g",":"," ">> \o FmClose \o <<"x">>

SlugContents == Contents \cup {Content_fmTitle, Content_fmEmpty, Content_fmSlugEmpty}

\* id is what the uniqueness loop makes of the candidate c on the disk f: c when
\* no directory c exists in the posts directory, else c-k for a k >= 1 such that
\* no directory c-k exists
IdFromCandidate(f, c, id) ==
    IF ~IsDirectory(f, PostPath(c)) THEN id = c
    ELSE \E k \in 1..(Cardinality(DOMAIN f) + 1) :
            /\ id = c \o <<"-">> \o Decimal(k)
            /\ ~IsDirectory(f, PostPath(id))

\* C13: in the folder-layout create, a non-empty frontmatter slug s is the
\* candidate slug instead of the slug of the title: the returned id is s when no
\* folder s exists and s-k otherwise; without a slug field (or with an empty
\* one) the candidate is the slug of the title.
C13_FrontmatterSlugCandidate ==
    \A title \in Titles, content \in SlugContents :
        LET s == FmGet(parseFrontmatter(content).frontmatter, SlugKey)
            r == folderCreate(fs, Data(title, content), clock)
            \* the disk once create has made sure that the posts directory exists
            disk == ensureDir(fs, PostsDir).fs
        IN /\ ~r.threw
           /\ s \notin {JsUndefined, <<>>} => IdFromCandidate(disk, s, r.value.id)
           /\ s \in {JsUndefined, <<>>} => IdFromCandidate(disk, generateSlug(title), r.value.id)

\* two creates with the frontmatter slug a/b have acted: the posts a/b and
\* a/b-1 are stored, their titles those of the calls
C13_Witness ==
    /\ op = "create"
    /\ folderGet(fs, Id_a_b) # NoPost
    /\ folderGet(fs, Id_a_b \o <<"-","1">>) # NoPost
    /\ folderGet(fs, Id_a_b).content = Content_fmSlug
    /\ folderGet(fs, Id_a_b).title \in Titles


(***************************************************************************)
(* State machine: create called with the titles that exercise generateSlug *)
(***************************************************************************)
\* a run of n characters c
Repeat(c, n) == [i \in 1..n |-> c]

\* titles around the 60-character limit: 60 and 61 letters, and 59 letters
\* followed by " b", whose hyphen is the 60th character of the slug
Title_60 == Repeat("a", SlugMaxLen)
Title_61 == Repeat("a", SlugMaxLen + 1)
Title_59_b == Repeat("a", SlugMaxLen - 1) \o <<" ", "b">>

SlugTitles ==
    {<<>>, Title_punct, Str_a, Title_A_b, <<" ","a"," ">>, <<"a","-","-","b">>, <<"-","a","-">>, <<"a","_","b">>, <<"a"," ","\t"," ","b">>, <<"é","1">>, <<"a"," ","-"," ","B">>,
     Title_60, Title_61, Title_59_b}

SlugCreateStep == \E title \in SlugTitles : Create(title, Content_plain)
SlugDeleteStep == \E d \in PostFolders(fs) : Delete(d[Len(d)])

NextSlug == Tick \/ SlugCreateStep \/ SlugDeleteStep

SpecSlug == Init /\ [][NextSlug]_vars

NoDoubleHyphen(s) == \A i \in 1..(Len(s) - 1) : ~(s[i] = "-" /\ s[i+1] = "-")

\* What holds of generateSlug: at most 60 characters, all of them lowercase
\* letters, digits, underscore or hyphen, no two consecutive hyphens and no
\* leading hyphen; a trailing hyphen only in a slug cut at 60 characters.  The
\* ids of the posts created from these titles are such slugs, with the suffix
\* of the uniqueness loop when taken.
SlugShapeUpToTruncation ==
    /\ \A title \in SlugTitles :
         LET s == generateSlug(title)
         IN /\ Len(s) <= SlugMaxLen
            /\ IsUrlSafe(s)
            /\ NoDoubleHyphen(s)
            /\ s # <<>> => s[1] # "-"
            /\ (s # <<>> /\ s[Len(s)] = "-") => Len(s) = SlugMaxLen
    /\ \A d \in PostDirs(fs) :
         /\ MetaOf(fs, d).title \in SlugTitles
         /\ \/ MetaOf(fs, d).id = generateSlug(MetaOf(fs, d).title)
            \/ StartsWith(MetaOf(fs, d).id, generateSlug(MetaOf(fs, d).title) \o <<"-">>)

\* C15: the slug of the title of every post created has at most 60
\* characters, only lowercase letters, digits, underscore and hyphen, no two
\* consecutive hyphens, and neither begins nor ends with a hyphen.
C15_Original ==
    \A d \in PostDirs(fs) :
        LET s == generateSlug(MetaOf(fs, d).title)
        IN /\ Len(s) <= SlugMaxLen
           /\ IsUrlSafe(s)
           /\ NoDoubleHyphen(s)
           /\ s # <<>> => s[1] # "-" /\ s[Len(s)] # "-"

\* C16: in the flat-file layout, an update of a post that get(X) reports with
\* id X leaves get(X) and list() reporting a post with id X, whatever title or
\* content the update carries.
C16_IdImmutable ==
    [][\A id \in FlatIds, data \in FlatUpdateData :
         (/\ FlatUpdate(id, data)
          /\ flatGet(fs, id, clock) # NoPost
          /\ flatGet(fs, id, clock).id = id)
         => /\ flatGet(fs', id, clock) # NoPost
            /\ flatGet(fs', id, clock).id = id
            /\ \A entries \in ReadDirOrders(fs') :
                 \E i \in 1..Len(flatList(fs', entries, clock).value) :
                    flatList(fs', entries, clock).value[i].id = id]_vars


(***************************************************************************)
(* State machine: the server and the PostManager with image uploads        *)
(***************************************************************************)
UploadPathOf(id) == ApiPosts \o <<"/">> \o id \o UploadSuffix

\* the ids of the posts that receive images
ImageIds == {Id_a, Id_a1}

\* the files sent as the part "image": [type, name]
ImageFiles ==
    {FilePart(Type_png, <<"x",".","P","N","G">>),
     FilePart(Type_jpg, <<"x",".","j","p","g">>),
     FilePart(Type_webp, <<"x">>),
     FilePart(Type_svg, <<"x",".","s","v","g">>),
     FilePart(Type_text, <<"x",".","p","n","g">>),
     FilePart(<<>>, <<"x",".","g","i","f">>)}

UploadBodies == {FormBody(NoFile), ObjectBody(Str_a, Content_plain)} \cup {FormBody(file) : file \in ImageFiles}

\* the image a first upload of x.PNG to post a is served as
ImageUrl_a == <<"/">> \o ImagePath(Id_a, <<"u","1",".","p","n","g">>)

ImageRequests ==
    {Request("POST", UploadPathOf(id), b) : id \in ImageIds \cup {Id_unknown}, b \in UploadBodies}
        \cup {Request(m, UploadPathOf(Id_a), NoBody) : m \in {"GET", "PUT"}}
        \cup {Request("GET", ImageUrl_a, NoBody), Request("DELETE", PostPathOf(Id_a), NoBody)}

\* randomUUID gives a name that no stored file has
FreshUuid(f, uuid) == \A q \in DOMAIN f : Len(q) > 0 => ~StartsWith(q[Len(q)], uuid)

ImageCreateStep == Create(Str_a, Content_plain)

ImageUpdateStep == \E id \in ImageIds, data \in UpdateData : Update(id, data)

ImageDeleteStep == \E id \in ImageIds \cup {Id_a_images} : Delete(id)

ImageHandleStep ==
    \E req \in ImageRequests, uuid \in Uuids, entries \in ReadDirOrders(fs) :
        /\ FreshUuid(fs, uuid)
        /\ req.body \in (IF req.method = "POST" THEN UploadBodies ELSE {NoBody})
        /\ Handle(req, uuid, entries)

NextImages == ImageCreateStep \/ ImageUpdateStep \/ ImageDeleteStep \/ ImageHandleStep

SpecImages == Init /\ [][NextImages]_vars

\* the paths listImages(id) returns, as a set
ListedImages(f, id) ==
    Range(listImages(f, id, CHOOSE entries \in ImageDirOrders(f, id) : TRUE))

\* the call uploadImage(id, ...) that the handler makes for req, when it makes one
UploadOf(f, req, uuid) ==
    uploadImage(f, imageUploadMatch(req.path).postId, ImageBytes,
                extensionOf(req.body.file.name), uuid)

\* req is a POST on the upload route of post id whose file the handler passes
\* to uploadImage
CallsUpload(req, id) ==
    /\ req.method = "POST"
    /\ req.path = UploadPathOf(id)
    /\ req.body.kind = "form"
    /\ req.body.file.present
    /\ req.body.file.type \in allowedTypes

\* C17: an upload to an existing post returns a path that starts with
\* "images/", contains the post id and ends with "." and the extension, and
\* adds exactly that path, a new one, to what listImages returns for the post;
\* nothing but an upload to the post changes that list while the post exists,
\* and a post just created has an empty list.
C17_ImageRoundTrip ==
    [][\A id \in ImageIds :
         /\ \A req \in ImageRequests, uuid \in Uuids, entries \in ReadDirOrders(fs) :
              (/\ CallsUpload(req, id)
               /\ FreshUuid(fs, uuid)
               /\ Handle(req, uuid, entries)
               /\ ~UploadOf(fs, req, uuid).threw)
              => LET path == UploadOf(fs, req, uuid).value
                 IN /\ StartsWith(path, ImagesDir \o <<"/">>)
                    /\ Includes(path, id)
                    /\ EndsWith(path, <<".">> \o extensionOf(req.body.file.name))
                    /\ path \notin ListedImages(fs, id)
                    /\ ListedImages(fs', id) = ListedImages(fs, id) \cup {path}
         /\ (folderGet(fs, id) # NoPost /\ folderGet(fs', id) # NoPost
               /\ ListedImages(fs', id) # ListedImages(fs, id))
              => \E req \in ImageRequests, uuid \in Uuids, entries \in ReadDirOrders(fs) :
                    /\ CallsUpload(req, id)
                    /\ FreshUuid(fs, uuid)
                    /\ Handle(req, uuid, entries)
         /\ (folderGet(fs, id) = NoPost /\ folderGet(fs', id) # NoPost)
              => ListedImages(fs', id) = {}]_vars



\* req is a POST on the upload route
IsUploadPost(req) == req.method = "POST" /\ imageUploadMatch(req.path).matched

\* the reply that rejects a request and leaves the store f as it is
RejectedReply(f) == Reply(Response(400, "application/json", "error"), f)

\* C18 as amended: POST /api/posts/:id/upload stores an image and responds 201
\* only for form data whose part "image" is a file of type image/png,
\* image/jpeg, image/jpg, image/gif or image/webp; any other body is rejected
\* with 400 and the store is left as it was.
C18_UploadTypes ==
    \A req \in ImageRequests, uuid \in Uuids, entries \in ReadDirOrders(fs) :
        (IsUploadPost(req) /\ FreshUuid(fs, uuid))
        => LET good == /\ req.body.kind = "form"
                       /\ req.body.file.present
                       /\ req.body.file.type \in {Type_png, Type_jpeg, Type_jpg, Type_gif, Type_webp}
               reply == handler(fs, req, uuid, entries, clock)
           IN /\ ~good => reply = RejectedReply(fs)
              /\ (good /\ folderGet(fs, imageUploadMatch(req.path).postId) # NoPost)
                   => reply.response.status = 201 /\ reply.fs # fs
              /\ reply.response.status \in {201, 400}
              /\ reply.response.status = 400 => reply.fs = fs

\* C18: POST /api/posts/:id/upload with a body that is not form data with a
\* file of type image/png, image/jpeg, image/gif or image/webp as its part
\* "image" is rejected with 400 and stores nothing.
C18_Original ==
    \A req \in ImageRequests, uuid \in Uuids, entries \in ReadDirOrders(fs) :
        (/\ IsUploadPost(req)
         /\ FreshUuid(fs, uuid)
         /\ ~(/\ req.body.kind = "form"
              /\ req.body.file.present
              /\ req.body.file.type \in {Type_png, Type_jpeg, Type_gif, Type_webp}))
        => handler(fs, req, uuid, entries, clock) = RejectedReply(fs)

\* the server has stored the image of an accepted upload to post a: only the
\* handler stores images in this state machine
C18_Witness ==
    /\ op = "http"
    /\ folderGet(fs, Id_a) # NoPost
    /\ ImagePath(Id_a, <<"u","1",".","p","n","g">>) \in ListedImages(fs, Id_a)

Partials == {"none", "empty", "cut"}

\* ensureDir(p) throwing: nothing created, or the ancestors of p only
failedEnsureDir(f, p, partial) ==
    [ok |-> FALSE,
     fs |-> IF partial = "none" \/ ~ensureDir(f, Parent(p)).ok THEN f
            ELSE ensureDir(f, Parent(p)).fs]

\* Deno.writeTextFile(p, text) throwing: no file, an empty file, or the first
\* character of text
failedWrite(f, p, text, partial) ==
    [ok |-> FALSE,
     fs |-> IF partial = "none" THEN f
            ELSE writeFile(f, p, TextEntry(IF partial = "empty" THEN <<>>
                                           ELSE SubSeq(text, 1, 1))).fs]

\* JSON.stringify(metadata, null, 2) starts with "{"
MetaText == Unparseable

\* the file operations of create, lines 376-392, the one numbered failAt
\* throwing: ensureDir(postDir), ensureDir(images), post.md, meta.json
createPostFolderFailing(f, postDir, data, failAt, partial) ==
    IF failAt = 1 THEN failedEnsureDir(f, postDir, partial)
    ELSE Then(ensureDir(f, postDir), LAMBDA g :
         IF failAt = 2 THEN failedEnsureDir(g, Append(postDir, ImagesDir), partial)
         ELSE Then(ensureDir(g, Append(postDir, ImagesDir)), LAMBDA h :
              IF failAt = 3 THEN failedWrite(h, Append(postDir, PostMd), data.content, partial)
              ELSE Then(writeFile(h, Append(postDir, PostMd), TextEntry(data.content)),
                        LAMBDA k : failedWrite(k, Append(postDir, MetaJson), MetaText, partial))))

\* the id the uniqueness loop of create arrives at for data on disk f
candidateId(f, data) ==
    uniqueSlugOf(ensureDir(f, PostsDir).fs,
                 candidateSlug(FmGet(parseFrontmatter(data.content).frontmatter, SlugKey),
                               data.title))

\* create(data), data an object with a string title and content, with the file
\* operation failAt throwing
folderCreateFailing(f, data, failAt, partial) ==
    IF ~ensureDir(f, PostsDir).ok THEN Thrown(f)
    ELSE Thrown(createPostFolderFailing(ensureDir(f, PostsDir).fs,
                                        PostPath(candidateId(f, data)),
                                        data, failAt, partial).fs)

\* the folders below the posts directory, whole or partial, are at most MaxPosts
RoomForFolder(f) ==
    Cardinality({d \in DOMAIN f : IsDirectory(f, d) /\ Len(d) > Len(PostsDir)
                                    /\ d[Len(d)] # ImagesDir}) < MaxPosts

CreateFails(title, content, failAt, partial) ==
    /\ RoomForFolder(fs)
    /\ op' = "createFailed"
    /\ fs' = folderCreateFailing(fs, Data(title, content), failAt, partial).fs
    /\ UNCHANGED <<clock, procs, cli>>

FailSteps == 1..4

CreateFailsStep ==
    \E title \in Titles, content \in Contents, failAt \in FailSteps, partial \in Partials :
        CreateFails(title, content, failAt, partial)

FailCreateStep == RoomForFolder(fs) /\ CreateStep

NextFail == FailCreateStep \/ CreateFailsStep \/ GetStep \/ DeleteStep

SpecFail == Init /\ [][NextFail]_vars

\* C20: when a file operation of create after the uniqueness check throws,
\* get(candidate id) is absent and no entry of list() has the candidate id.
C20_NoPartialPost ==
    [][\A title \in Titles, content \in Contents, failAt \in FailSteps, partial \in Partials :
         CreateFails(title, content, failAt, partial)
         => /\ folderGet(fs', candidateId(fs, Data(title, content))) = NoPost
            /\ \A entries \in ReadDirOrders(fs') :
                 \A i \in 1..Len(folderList(fs', entries).value) :
                    folderList(fs', entries).value[i].id # candidateId(fs, Data(title, content))]_vars

\* create has failed while it wrote meta.json: the folder of post a holds
\* post.md, images and a meta.json cut short, and get(a) is absent
C20_Witness ==
    /\ op = "createFailed"
    /\ IsDirectory(fs, Append(PostPath(Id_a), ImagesDir))
    /\ ContentReadable(fs, PostPath(Id_a))
    /\ Exists(fs, Append(PostPath(Id_a), MetaJson))
    /\ fs[Append(PostPath(Id_a), MetaJson)] = TextEntry(Unparseable)
    /\ folderGet(fs, Id_a) = NoPost


(***************************************************************************)
(* Concurrent calls.  A call in progress is a process: every await of its  *)
(* code is a point where the other call may run.  Deno.writeTextFile       *)
(* truncates the file and then writes the text, so that a concurrent read  *)
(* may find the file empty.                                                *)
(***************************************************************************)
AllIdle == \A p \in Procs : procs[p].call = "none"

Done(p) == procs[p].pc = "done"

\* the process p moved to position pc
At(p, pc) == [procs EXCEPT ![p].pc = pc]

\* the process p completed with result
Finished(p, result) == [procs EXCEPT ![p].pc = "done", ![p].result = result]

\* update(id, data) is called
UpdateStart(p, id, data) ==
    /\ procs[p].call = "none"
    /\ procs' = [procs EXCEPT ![p].call = "update", ![p].pc = "stat",
                              ![p].id = id, ![p].data = data]
    /\ op' = "update"
    /\ UNCHANGED <<fs, clock, cli>>

\* get, line 410: Deno.stat(postPath)
UpdateStat(p) ==
    /\ procs[p].call = "update" /\ procs[p].pc = "stat"
    /\ procs' = IF IsDirectory(fs, PostPath(procs[p].id))
                THEN At(p, "readMeta") ELSE Finished(p, "null")
    /\ UNCHANGED <<fs, clock, op, cli>>

\* get, line 420: JSON.parse(await Deno.readTextFile(metaFile))
UpdateReadMeta(p) ==
    /\ procs[p].call = "update" /\ procs[p].pc = "readMeta"
    /\ procs' = IF MetaReadable(fs, PostPath(procs[p].id))
                THEN [procs EXCEPT ![p].pc = "readPost",
                                   ![p].meta = fs[Append(PostPath(procs[p].id), MetaJson)].json]
                ELSE Finished(p, "null")
    /\ UNCHANGED <<fs, clock, op, cli>>

\* get, line 421: Deno.readTextFile(postFile), and the post get returns
UpdateReadPost(p) ==
    /\ procs[p].call = "update" /\ procs[p].pc = "readPost"
    /\ procs' =
         IF ContentReadable(fs, PostPath(procs[p].id))
         THEN [procs EXCEPT
                 ![p].pc = IF procs[p].data.content # JsUndefined THEN "openPost" ELSE "readMeta2",
                 ![p].post = [id |-> procs[p].meta.id, folder |-> procs[p].id,
                              title |-> procs[p].meta.title,
                              content |-> fs[Append(PostPath(procs[p].id), PostMd)].text,
                              createdAt |-> procs[p].meta.createdAt,
                              updatedAt |-> procs[p].meta.updatedAt]]
         ELSE Finished(p, "null")
    /\ UNCHANGED <<fs, clock, op, cli>>

\* update, line 475: Deno.writeTextFile(postFile, data.content), the file opened
UpdateOpenPost(p) ==
    /\ procs[p].call = "update" /\ procs[p].pc = "openPost"
    /\ fs' = writeFile(fs, Append(PostPath(procs[p].post.folder), PostMd), TextEntry(<<>>)).fs
    /\ procs' = IF writeFile(fs, Append(PostPath(procs[p].post.folder), PostMd), TextEntry(<<>>)).ok
                THEN At(p, "writePost") ELSE Finished(p, "threw")
    /\ UNCHANGED <<clock, op, cli>>

\* update, line 475: the text written
UpdateWritePost(p) ==
    /\ procs[p].call = "update" /\ procs[p].pc = "writePost"
    /\ fs' = writeFile(fs, Append(PostPath(procs[p].post.folder), PostMd),
                       TextEntry(procs[p].data.content)).fs
    /\ procs' = At(p, "readMeta2")
    /\ UNCHANGED <<clock, op, cli>>

\* update, line 479: JSON.parse(await Deno.readTextFile(metaFile))
UpdateReadMetaAgain(p) ==
    /\ procs[p].call = "update" /\ procs[p].pc = "readMeta2"
    /\ procs' = IF MetaReadable(fs, PostPath(procs[p].post.folder))
                THEN [procs EXCEPT ![p].pc = "openMeta",
                                   ![p].meta = fs[Append(PostPath(procs[p].post.folder), MetaJson)].json]
                ELSE Finished(p, "threw")
    /\ UNCHANGED <<fs, clock, op, cli>>

\* update, line 486: Deno.writeTextFile(metaFile, ...), the file opened
UpdateOpenMeta(p) ==
    /\ procs[p].call = "update" /\ procs[p].pc = "openMeta"
    /\ fs' = writeFile(fs, Append(PostPath(procs[p].post.folder), MetaJson), TextEntry(<<>>)).fs
    /\ procs' = IF writeFile(fs, Append(PostPath(procs[p].post.folder), MetaJson), TextEntry(<<>>)).ok
                THEN At(p, "writeMeta") ELSE Finished(p, "threw")
    /\ UNCHANGED <<clock, op, cli>>

\* update, line 486: the text written, and the post returned
UpdateWriteMeta(p) ==
    /\ procs[p].call = "update" /\ procs[p].pc = "writeMeta"
    /\ fs' = writeFile(fs, Append(PostPath(procs[p].post.folder), MetaJson),
                       JsonEntry(updatedMetadata(procs[p].meta, procs[p].data, clock))).fs
    /\ procs' = Finished(p, "post")
    /\ UNCHANGED <<clock, op, cli>>

UpdateProc(p) ==
    \/ UpdateStat(p) \/ UpdateReadMeta(p) \/ UpdateReadPost(p) \/ UpdateOpenPost(p)
    \/ UpdateWritePost(p) \/ UpdateReadMetaAgain(p) \/ UpdateOpenMeta(p) \/ UpdateWriteMeta(p)

\* the updates that run concurrently: a title, a content, or both
RaceUpdateData == UpdateData \cup {Data(Str_x, Str_x)}

\* the post the updates are made to is created before they start
RaceSetup == AllIdle /\ NumPosts(fs) = 0 /\ Create(Str_a, Content_plain)

RaceUpdateStart ==
    \E p \in Procs, data \in RaceUpdateData :
        folderGet(fs, Id_a) # NoPost /\ UpdateStart(p, Id_a, data)

RaceUpdateStep == \E p \in Procs : UpdateProc(p)

NextUpdates == RaceSetup \/ RaceUpdateStart \/ RaceUpdateStep

SpecUpdates == Init /\ [][NextUpdates]_vars


\* the disk on which the concurrent updates start
RaceDisk ==
    folderCreate([p \in {<<>>, WorkDir} |-> DirEntry], Data(Str_a, Content_plain), 0).fs

\* the stored title and content of post a
StoredPair(f) == <<folderGet(f, Id_a).title, folderGet(f, Id_a).content>>

\* what the updates d1 and d2 leave when one runs after the other
SerialOutcomes(d1, d2) ==
    {StoredPair(folderUpdate(folderUpdate(RaceDisk, Id_a, d1, 0).fs, Id_a, d2, 0).fs),
     StoredPair(folderUpdate(folderUpdate(RaceDisk, Id_a, d2, 0).fs, Id_a, d1, 0).fs)}

BothUpdated == \A p \in Procs : Done(p) /\ procs[p].result = "post"

GivenTitles == {procs[p].data.title : p \in {q \in Procs : procs[q].data.title # JsUndefined}}
GivenContents == {procs[p].data.content : p \in {q \in Procs : procs[q].data.content # JsUndefined}}

\* C21: after two concurrent updates of a post have both returned the post, its
\* stored title and content are what one of the two serial orders leaves.
C21_Original ==
    BothUpdated => StoredPair(fs) \in SerialOutcomes(procs[1].data, procs[2].data)

\* C21 as amended: after two concurrent updates of a post have both returned
\* the post, the stored content is a content given by one of them, or the
\* original content when neither gave one; the stored title is a title given by
\* one of them, or the original title when at most one gave a title.
C21_LastWriterPerFile ==
    BothUpdated =>
        /\ folderGet(fs, Id_a) # NoPost
        /\ folderGet(fs, Id_a).content \in
              (IF GivenContents = {} THEN {Content_plain} ELSE GivenContents)
        /\ folderGet(fs, Id_a).title \in
              (IF \A p \in Procs : procs[p].data.title # JsUndefined
               THEN GivenTitles ELSE GivenTitles \cup {Str_a})

\* both updates have returned, one gave a title and the other a content, and
\* the title stored is the original one: the title update is lost
C21_Witness ==
    /\ BothUpdated
    /\ procs[1].data = Data(Title_new, JsUndefined)
    /\ procs[2].data = Data(JsUndefined, Content_new)
    /\ StoredPair(fs) = <<Str_a, Content_new>>



(***************************************************************************)
(* Concurrent create and get, folder layout                                *)
(***************************************************************************)
\* create(data) is called
CreateStart(p, data) ==
    /\ procs[p].call = "none"
    /\ procs' = [procs EXCEPT ![p].call = "create", ![p].pc = "ensurePosts", ![p].data = data]
    /\ op' = "create"
    /\ UNCHANGED <<fs, clock, cli>>

\* the awaited steps of create after the loop, in the order of the code, but
\* with meta.json written before post.md
createStepsMetaFirst == <<"mkdir", "mkimages", "openMeta", "writeMeta", "openPost", "writePost">>

\* the awaited steps of create after the loop, in the order of the code:
\* ensureDir(postDir), ensureDir(images), writeTextFile(postFile),
\* writeTextFile(metaFile)
createSteps == <<"mkdir", "mkimages", "openPost", "writePost", "openMeta", "writeMeta">>

\* the process p completed the step pc of create
AfterStep(p, pc) ==
    LET i == CHOOSE k \in 1..Len(createSteps) : createSteps[k] = pc
    IN IF i = Len(createSteps) THEN Finished(p, "post") ELSE At(p, createSteps[i + 1])

\* the metadata create writes, with the title left out
newMetadataUntitled(uniqueSlug, data, now) ==
    [id |-> uniqueSlug, slug |-> uniqueSlug, title |-> <<>>, createdAt |-> now, updatedAt |-> now]

\* const metadata = {id, slug, title, createdAt, updatedAt}
newMetadata(uniqueSlug, data, now) ==
    [id |-> uniqueSlug, slug |-> uniqueSlug, title |-> data.title,
     createdAt |-> now, updatedAt |-> now]

\* line 357: await ensureDir(this.postsDir); then the candidate slug
CreateEnsurePosts(p) ==
    /\ procs[p].call = "create" /\ procs[p].pc = "ensurePosts"
    /\ fs' = ensureDir(fs, PostsDir).fs
    /\ procs' =
         IF ~ensureDir(fs, PostsDir).ok \/ ~IsString(procs[p].data.content)
         THEN Finished(p, "threw")
         ELSE IF ~Truthy(FmGet(parseFrontmatter(procs[p].data.content).frontmatter, SlugKey))
                 /\ ~IsString(procs[p].data.title)
         THEN Finished(p, "threw")
         ELSE [procs EXCEPT
                 ![p].pc = "check",
                 ![p].slug = candidateSlug(
                     FmGet(parseFrontmatter(procs[p].data.content).frontmatter, SlugKey),
                     procs[p].data.title),
                 ![p].id = candidateSlug(
                     FmGet(parseFrontmatter(procs[p].data.content).frontmatter, SlugKey),
                     procs[p].data.title),
                 ![p].counter = 1]
    /\ UNCHANGED <<clock, op, cli>>

\* lines 368-371: one turn of while (await this.slugExists(uniqueSlug))
CreateCheck(p) ==
    /\ procs[p].call = "create" /\ procs[p].pc = "check"
    /\ procs' =
         IF slugExists(fs, procs[p].id)
         THEN [procs EXCEPT ![p].id = procs[p].slug \o <<"-">> \o Decimal(procs[p].counter),
                            ![p].counter = procs[p].counter + 1]
         ELSE At(p, createSteps[1])
    /\ UNCHANGED <<fs, clock, op, cli>>

\* line 376: await ensureDir(postDir)
CreateMkdir(p) ==
    /\ procs[p].call = "create" /\ procs[p].pc = "mkdir"
    /\ fs' = ensureDir(fs, PostPath(procs[p].id)).fs
    /\ procs' = IF ensureDir(fs, PostPath(procs[p].id)).ok
                THEN AfterStep(p, "mkdir") ELSE Finished(p, "threw")
    /\ UNCHANGED <<clock, op, cli>>

\* line 377: await ensureDir(join(postDir, "images"))
CreateMkImages(p) ==
    /\ procs[p].call = "create" /\ procs[p].pc = "mkimages"
    /\ fs' = ensureDir(fs, Append(PostPath(procs[p].id), ImagesDir)).fs
    /\ procs' = IF ensureDir(fs, Append(PostPath(procs[p].id), ImagesDir)).ok
                THEN AfterStep(p, "mkimages") ELSE Finished(p, "threw")
    /\ UNCHANGED <<clock, op, cli>>

\* line 380: Deno.writeTextFile(postFile, data.content), the file opened
CreateOpenPost(p) ==
    /\ procs[p].call = "create" /\ procs[p].pc = "openPost"
    /\ fs' = writeFile(fs, Append(PostPath(procs[p].id), PostMd), TextEntry(<<>>)).fs
    /\ procs' = IF writeFile(fs, Append(PostPath(procs[p].id), PostMd), TextEntry(<<>>)).ok
                THEN AfterStep(p, "openPost") ELSE Finished(p, "threw")
    /\ UNCHANGED <<clock, op, cli>>

\* line 380: the text written
CreateWritePost(p) ==
    /\ procs[p].call = "create" /\ procs[p].pc = "writePost"
    /\ fs' = writeFile(fs, Append(PostPath(procs[p].id), PostMd),
                       TextEntry(procs[p].data.content)).fs
    /\ procs' = AfterStep(p, "writePost")
    /\ UNCHANGED <<clock, op, cli>>

\* line 392: Deno.writeTextFile(metaFile, ...), the file opened
CreateOpenMeta(p) ==
    /\ procs[p].call = "create" /\ procs[p].pc = "openMeta"
    /\ fs' = writeFile(fs, Append(PostPath(procs[p].id), MetaJson), TextEntry(<<>>)).fs
    /\ procs' = IF writeFile(fs, Append(PostPath(procs[p].id), MetaJson), TextEntry(<<>>)).ok
                THEN AfterStep(p, "openMeta") ELSE Finished(p, "threw")
    /\ UNCHANGED <<clock, op, cli>>

\* line 392: the text written
CreateWriteMeta(p) ==
    /\ procs[p].call = "create" /\ procs[p].pc = "writeMeta"
    /\ fs' = writeFile(fs, Append(PostPath(procs[p].id), MetaJson),
                       JsonEntry(newMetadata(procs[p].id, procs[p].data, clock))).fs
    /\ procs' = AfterStep(p, "writeMeta")
    /\ UNCHANGED <<clock, op, cli>>

CreateProc(p) ==
    \/ CreateEnsurePosts(p) \/ CreateCheck(p) \/ CreateMkdir(p) \/ CreateMkImages(p)
    \/ CreateOpenPost(p) \/ CreateWritePost(p) \/ CreateOpenMeta(p) \/ CreateWriteMeta(p)

\* get(id) is called
GetStart(p, id) ==
    /\ procs[p].call = "none"
    /\ procs' = [procs EXCEPT ![p].call = "get", ![p].pc = "stat", ![p].id = id]
    /\ op' = "get"
    /\ UNCHANGED <<fs, clock, cli>>

\* line 410: Deno.stat(postPath); counter is the number of awaits passed
GetStat(p) ==
    /\ procs[p].call = "get" /\ procs[p].pc = "stat"
    /\ procs' = IF IsDirectory(fs, PostPath(procs[p].id))
                THEN [procs EXCEPT ![p].pc = "readMeta", ![p].counter = 1]
                ELSE [procs EXCEPT ![p].pc = "done", ![p].result = "null", ![p].counter = 1]
    /\ UNCHANGED <<fs, clock, op, cli>>

\* line 420: JSON.parse(await Deno.readTextFile(metaFile))
GetReadMeta(p) ==
    /\ procs[p].call = "get" /\ procs[p].pc = "readMeta"
    /\ procs' = IF MetaReadable(fs, PostPath(procs[p].id))
                THEN [procs EXCEPT ![p].pc = "readPost", ![p].counter = 2,
                                   ![p].meta = fs[Append(PostPath(procs[p].id), MetaJson)].json]
                ELSE [procs EXCEPT ![p].pc = "done", ![p].result = "null", ![p].counter = 2]
    /\ UNCHANGED <<fs, clock, op, cli>>

\* line 421: Deno.readTextFile(postFile), and the post returned
GetReadPost(p) ==
    /\ procs[p].call = "get" /\ procs[p].pc = "readPost"
    /\ procs' =
         IF ContentReadable(fs, PostPath(procs[p].id))
         THEN [procs EXCEPT
                 ![p].pc = "done", ![p].result = "post", ![p].counter = 3,
                 ![p].post = [id |-> procs[p].meta.id, folder |-> procs[p].id,
                              title |-> procs[p].meta.title,
                              content |-> fs[Append(PostPath(procs[p].id), PostMd)].text,
                              createdAt |-> procs[p].meta.createdAt,
                              updatedAt |-> procs[p].meta.updatedAt]]
         ELSE [procs EXCEPT ![p].pc = "done", ![p].result = "null", ![p].counter = 3]
    /\ UNCHANGED <<fs, clock, op, cli>>

GetProc(p) == GetStat(p) \/ GetReadMeta(p) \/ GetReadPost(p)

Title_A == <<"A">>

\* the creates that run concurrently: the titles a and A give the slug a
RaceCreateData == {Data(t, c) : t \in {Str_a, Title_A}, c \in {Content_plain, Content_new}}

RaceCreateStart == \E p \in Procs, data \in RaceCreateData : CreateStart(p, data)

RaceGetStart == \E p \in Procs, id \in {Id_a, Id_a1} : GetStart(p, id)

RaceCreateStep == \E p \in Procs : CreateProc(p)

RaceGetStep == \E p \in Procs : GetProc(p)

NextCreates ==
    RaceSetup \/ RaceCreateStart \/ RaceGetStart \/ RaceCreateStep \/ RaceGetStep

SpecCreates == Init /\ [][NextCreates]_vars

\* the directories directly inside the posts directory
FoldersIn(f) == {q \in Children(f, PostsDir) : IsDirectory(f, q)}

BothCreated == \A p \in Procs : procs[p].call = "create" /\ Done(p) /\ procs[p].result = "post"

\* C22: two concurrent creates with the same candidate slug that both found
\* the slug free hold the same id before either creates its folder; when both
\* have returned that id, one folder exists for it, and post.md and meta.json
\* each hold what one of the two calls wrote.
C22_CheckThenWrite ==
    /\ (\A p \in Procs : procs[p].call = "create" /\ procs[p].pc = "mkdir")
       /\ procs[1].slug = procs[2].slug
       => procs[1].id = procs[2].id
    /\ BothCreated /\ procs[1].id = procs[2].id
       => /\ FoldersIn(fs) = (IF procs[1].id = Id_a THEN {} ELSE {PostPath(Id_a)})
                              \cup {PostPath(procs[1].id)}
          /\ folderGet(fs, procs[1].id) # NoPost
          /\ folderGet(fs, procs[1].id).content \in {procs[p].data.content : p \in Procs}
          /\ folderGet(fs, procs[1].id).title \in {procs[p].data.title : p \in Procs}

\* both creates returned the id a, one folder exists, post.md is the one the
\* second call wrote and meta.json the one the first call wrote
C22_Witness ==
    /\ BothCreated
    /\ procs[1].id = Id_a /\ procs[2].id = Id_a
    /\ procs[1].data = Data(Str_a, Content_plain)
    /\ procs[2].data = Data(Title_A, Content_new)
    /\ FoldersIn(fs) = {PostPath(Id_a)}
    /\ folderGet(fs, Id_a).title = Str_a
    /\ folderGet(fs, Id_a).content = Content_new



\* the create of process q has settled its id, and the get of process p is for it
GetsCreated(p, q) ==
    /\ procs[p].call = "get"
    /\ procs[q].call = "create" /\ procs[q].pc \notin {"ensurePosts", "check"}
    /\ procs[q].result # "threw"
    /\ procs[p].id = procs[q].id

\* C28: a get(id) that runs concurrently with the one create producing id
\* returns absent or a post with the title and content passed to create, and
\* at every point of the create the disk holds no post id or that post.
C28_NoPartialRead ==
    \A p, q \in Procs :
        GetsCreated(p, q) =>
            /\ Done(p) /\ procs[p].result = "post"
               => /\ procs[p].post.title = procs[q].data.title
                  /\ procs[p].post.content = procs[q].data.content
            /\ folderGet(fs, procs[q].id) # NoPost
               => /\ folderGet(fs, procs[q].id).title = procs[q].data.title
                  /\ folderGet(fs, procs[q].id).content = procs[q].data.content

\* a get found the folder of the post being created and its meta.json not yet
\* written, and returned absent while the create was still writing meta.json
C28_Witness ==
    \E p, q \in Procs :
        /\ GetsCreated(p, q)
        /\ procs[q].pc = "writeMeta"
        /\ ContentReadable(fs, PostPath(procs[q].id))
        /\ Done(p) /\ procs[p].result = "null" /\ procs[p].counter = 2



(***************************************************************************)
(* main: the steps of the command line                                     *)
(***************************************************************************)
\* main up to "await loadConfig()": help, or exit(1) on an invalid port
MainStart(args) ==
    /\ cli.pc = "idle"
    /\ cli' = [cli EXCEPT !.args = args,
                          !.pc = IF args.help THEN "help"
                                 ELSE IF invalidPort(parseInt(flagsPort(args))) THEN "exit"
                                 ELSE "loadConfig"]
    /\ UNCHANGED <<fs, clock, op, procs>>

\* main from "await loadConfig()" on: createServer(finalPort, postsDir)
MainServe(config) ==
    /\ cli.pc = "loadConfig"
    /\ cli' = [cli EXCEPT !.config = config, !.pc = "serving",
                          !.finalPort = finalPortOf(cli.args, config),
                          !.opened = shouldOpenBrowser(cli.args, config)]
    /\ UNCHANGED <<fs, clock, op, procs>>

Port_7777 == <<"7","7","7","7">>
Port_8080 == <<"8","0","8","0">>
Port_08080 == <<"0","8","0","8","0">>
Port_0 == <<"0">>
Port_70000 == <<"7","0","0","0","0">>
Port_80x == <<"8","0","x">>
Port_x == <<"x">>
Port_sp3000 == <<" ","3","0","0","0">>

PortArgs ==
    {JsUndefined, Port_7777, Port_8080, Port_08080, Port_0, Port_70000, Port_80x, Port_x,
     Port_sp3000}

ConfigPorts == {NoPort, 7777, 8080, 3000}

Configs == [port : ConfigPorts, autoOpen : {"undefined", "true", "false"}]

MainStartStep == \E port \in PortArgs, help \in BOOLEAN, noOpen \in BOOLEAN :
                    MainStart(Args(port, help, noOpen))

MainServeStep == \E config \in Configs : MainServe(config)

NextMain == MainStartStep \/ MainServeStep

SpecMain == Init /\ [][NextMain]_vars

\* C23: when the server is started and --port or -p was given with the valid
\* value p it is started on p; it is started on the port of config.json only
\* when no port flag was given.
C23_FlagOverridesConfig ==
    cli.pc = "serving" =>
        /\ portFlagGiven(cli.args) => cli.finalPort = parseInt(cli.args.port)
        /\ (cli.config.port # NoPort /\ cli.finalPort = cli.config.port
            /\ cli.finalPort # parseInt(flagsPort(cli.args)))
           => ~portFlagGiven(cli.args)



(***************************************************************************)
(* The disambiguation loop of create, turn by turn                         *)
(***************************************************************************)
RECURSIVE uniqueSlugLoop(_, _, _, _)

\* an if in place of the while: one turn at most
uniqueSlugLoopOnce(f, slug, uniqueSlug, counter) ==
    IF slugExists(f, uniqueSlug) THEN slug \o <<"-">> \o Decimal(counter) ELSE uniqueSlug

\* while (await this.slugExists(uniqueSlug)) { uniqueSlug = `${slug}-${counter}`; counter++ }
uniqueSlugLoop(f, slug, uniqueSlug, counter) ==
    IF slugExists(f, uniqueSlug)
    THEN uniqueSlugLoop(f, slug, slug \o <<"-">> \o Decimal(counter), counter + 1)
    ELSE uniqueSlug

\* the candidates: from a title, from a frontmatter slug, and the empty one
Candidates == {Str_a, Id_a_b, <<>>}

\* a folder named c exists in the posts directory
FolderNamed(f, c) == IsDirectory(f, PostPath(c))

Suffixed(c, k) == c \o <<"-">> \o Decimal(k)

\* the least k >= 1, at most the number of entries of the disk plus one, for
\* which no folder named c-k exists
IsLeastFree(f, c, k) ==
    /\ k \in 1..(Cardinality(DOMAIN f) + 1)
    /\ ~FolderNamed(f, Suffixed(c, k))
    /\ \A j \in 1..(k - 1) : FolderNamed(f, Suffixed(c, j))

\* the loop on the disk f, and create on a disk that ensureDir(postsDir) turns
\* into f
LeastFreeSuffixOn(f) ==
    \A c \in Candidates :
        /\ ~FolderNamed(f, c) => uniqueSlugLoop(f, c, c, 1) = c
        /\ FolderNamed(f, c) =>
              \E k \in 1..(Cardinality(DOMAIN f) + 1) :
                  /\ IsLeastFree(f, c, k)
                  /\ uniqueSlugLoop(f, c, c, 1) = Suffixed(c, k)
        /\ \A title \in Titles \cup {Str_a}, content \in Contents :
              (/\ candidateSlug(FmGet(parseFrontmatter(content).frontmatter, SlugKey), title) = c
               /\ ~folderCreate(f, Data(title, content), clock).threw)
              => folderCreate(f, Data(title, content), clock).value.id
                   = uniqueSlugLoop(f, c, c, 1)

\* C24: the loop of create, which runs once the posts directory exists, ends
\* with the candidate c when no folder named c exists and otherwise with c-k
\* for the least k >= 1 such that no folder named c-k exists; a create that
\* returns, returns that id.
C24_LeastFreeSuffix == ensureDir(fs, PostsDir).ok => LeastFreeSuffixOn(ensureDir(fs, PostsDir).fs)

\* the folders a and a-1 exist and the last create returned a-1: the loop on
\* the candidate a now takes two turns
C24_Witness ==
    /\ op = "create"
    /\ FolderNamed(fs, Str_a) /\ FolderNamed(fs, Id_a1)
    /\ uniqueSlugLoop(fs, Str_a, Str_a, 1) = <<"a","-","2">>



(***************************************************************************)
(* The paths the handler knows                                             *)
(***************************************************************************)
Seg_api == <<"a","p","i">>
Seg_posts == <<"p","o","s","t","s">>
Seg_upload == <<"u","p","l","o","a","d">>

\* the paths requested: the routes, and paths beside them
ProbePaths ==
    Paths \cup {PostPathOf(Id_a) \o UploadSuffix,
                <<"/","a","p","i">>, ApiPrefix, ApiPosts \o <<"x">>,
                PostPathOf(Id_a_b), PostPathOf(Id_a) \o <<"/">>,
                PostPathOf(Id_a) \o UploadSuffix \o <<"/">>,
                HealthPath \o <<"/">>, IndexHtml, ImagesPrefix \o Id_a_postmd,
                ImagesPrefix, <<"/","i","m","a","g","e","s">>}

\* the path is /health, an existing static asset, an existing file under
\* /images/, /api/posts, /api/posts/:id or /api/posts/:id/upload
KnownPath(f, path) ==
    \/ path = HealthPath
    \/ path = RootPath /\ IndexHtml \in StaticAssets
    \/ path \in StaticAssets
    \/ /\ StartsWith(path, ImagesPrefix)
       /\ IsFile(f, ResolveFrom(PostsDir, Tail(path)))
    \/ Split(path, "/") = << <<>>, Seg_api, Seg_posts >>
    \/ /\ Len(Split(path, "/")) = 4
       /\ SubSeq(Split(path, "/"), 1, 3) = << <<>>, Seg_api, Seg_posts >>
       /\ Split(path, "/")[4] # <<>>
    \/ /\ Len(Split(path, "/")) = 5
       /\ SubSeq(Split(path, "/"), 1, 3) = << <<>>, Seg_api, Seg_posts >>
       /\ Split(path, "/")[4] # <<>>
       /\ Split(path, "/")[5] = Seg_upload

ProbeBodies == {NoBody, InvalidJsonBody, NullBody, ObjectBody(Str_a, Content_plain)}

\* C25: for every method, a request for a path that is none of the known ones
\* is answered 404 'Not Found' and leaves the store as it is, and a request
\* for /health is answered 200 'OK'.
C25_UnknownPath404 ==
    \A method \in Methods, path \in ProbePaths, body \in ProbeBodies,
       uuid \in Uuids, entries \in ReadDirOrders(fs) :
        /\ ~KnownPath(fs, path)
           => handler(fs, Request(method, path, body), uuid, entries, clock)
                = Reply(notFoundResponse, fs)
        /\ path = HealthPath
           => handler(fs, Request(method, path, body), uuid, entries, clock)
                = Reply(Response(200, "text/plain", "OK"), fs)

\* a post is stored, requests have been handled, and a DELETE for a path
\* beside the routes is answered 404
C25_Witness ==
    /\ op = "http"
    /\ folderGet(fs, Id_a) # NoPost
    /\ ~KnownPath(fs, PostPathOf(Id_a_b))
    /\ ~KnownPath(fs, <<"/","n">>)
    /\ \A uuid \in Uuids, entries \in ReadDirOrders(fs) :
          handler(fs, Request("DELETE", PostPathOf(Id_a_b), NoBody), uuid, entries, clock)
            = Reply(notFoundResponse, fs)



\* C26: in the flat-file layout, after any sequence of create, update and
\* delete, get(e.id) of every summary e that list() returns is a post with the
\* title of e.
C26_ListedRetrievable ==
    \A entries \in ReadDirOrders(fs) :
        \A i \in 1..Len(flatList(fs, entries, clock).value) :
            /\ flatGet(fs, flatList(fs, entries, clock).value[i].id, clock) # NoPost
            /\ flatGet(fs, flatList(fs, entries, clock).value[i].id, clock).title
                 = flatList(fs, entries, clock).value[i].title



\* the ids under which posts are looked for
FrameIds == Ids \cup {Id_a1}

\* every post stored under an id other than id is after the step what it was
OthersUnchanged(id) ==
    \A other \in FrameIds \ {id} :
        folderGet(fs, other) # NoPost => folderGet(fs', other) = folderGet(fs, other)

\* C27: in the folder layout, create, update and delete leave every post whose
\* id differs from the created or targeted id with the content, title,
\* createdAt and updatedAt it had, and get and list change no post.
C27_OtherPostsUnchanged ==
    [][/\ \A title \in Titles, content \in Contents :
            Create(title, content)
            => OthersUnchanged(folderCreate(fs, Data(title, content), clock).value.id)
       /\ \A id \in Ids, data \in UpdateData : Update(id, data) => OthersUnchanged(id)
       /\ \A id \in Ids : Delete(id) => OthersUnchanged(id)
       /\ op' \in {"get", "list"} => OthersUnchanged(Id_stray)]_vars



\* C30: in the flat-file layout, a create whose title gives the empty slug
\* returns a non-empty id.
C30_NoEmptyId ==
    \A title \in Titles, content \in FlatContents :
        (generateSlug(title) = <<>> /\ ~flatCreate(fs, Data(title, content), clock).threw)
        => flatCreate(fs, Data(title, content), clock).value.id # <<>>



(***************************************************************************)
(* Concurrent update and delete, flat-file layout                          *)
(***************************************************************************)
\* update(id, data) is called
FlatUpdateStart(p, id, data) ==
    /\ procs[p].call = "none"
    /\ procs' = [procs EXCEPT ![p].call = "flatUpdate", ![p].pc = "stat",
                              ![p].id = id, ![p].data = data]
    /\ op' = "flatUpdate"
    /\ UNCHANGED <<fs, clock, cli>>

\* get, line 146: Deno.stat(postFile)
FlatUpdateStat(p) ==
    /\ procs[p].call = "flatUpdate" /\ procs[p].pc = "stat"
    /\ procs' = IF IsFile(fs, FlatPostFile(procs[p].id))
                THEN At(p, "read") ELSE Finished(p, "null")
    /\ UNCHANGED <<fs, clock, op, cli>>

\* get, line 152: Deno.readTextFile(postFile), and the post get returns
FlatUpdateRead(p) ==
    /\ procs[p].call = "flatUpdate" /\ procs[p].pc = "read"
    /\ procs' = IF IsFile(fs, FlatPostFile(procs[p].id))
                THEN [procs EXCEPT ![p].pc = "open",
                                   ![p].post = flatGet(fs, procs[p].id, clock)]
                ELSE Finished(p, "null")
    /\ UNCHANGED <<fs, clock, op, cli>>

\* update, line 243: Deno.writeTextFile(postFile, updatedContent), the file
\* opened, and created when it is not there
FlatUpdateOpen(p) ==
    /\ procs[p].call = "flatUpdate" /\ procs[p].pc = "open"
    /\ fs' = writeFile(fs, FlatPostFile(procs[p].id), TextEntry(<<>>)).fs
    /\ procs' = IF writeFile(fs, FlatPostFile(procs[p].id), TextEntry(<<>>)).ok
                THEN At(p, "write") ELSE Finished(p, "threw")
    /\ UNCHANGED <<clock, op, cli>>

\* update, line 243: the text written, and the post returned
FlatUpdateWrite(p) ==
    /\ procs[p].call = "flatUpdate" /\ procs[p].pc = "write"
    /\ fs' = flatUpdateFound(fs, procs[p].id, procs[p].post, procs[p].data, clock).fs
    /\ procs' = IF flatUpdateFound(fs, procs[p].id, procs[p].post, procs[p].data, clock).threw
                THEN Finished(p, "threw") ELSE Finished(p, "post")
    /\ UNCHANGED <<clock, op, cli>>

\* delete(id) is called
FlatDeleteStart(p, id) ==
    /\ procs[p].call = "none"
    /\ procs' = [procs EXCEPT ![p].call = "flatDelete", ![p].pc = "stat", ![p].id = id]
    /\ op' = "flatDelete"
    /\ UNCHANGED <<fs, clock, cli>>

\* delete, line 264: Deno.stat(postFile)
FlatDeleteStat(p) ==
    /\ procs[p].call = "flatDelete" /\ procs[p].pc = "stat"
    /\ procs' = IF IsFile(fs, FlatPostFile(procs[p].id))
                THEN At(p, "remove") ELSE Finished(p, "false")
    /\ UNCHANGED <<fs, clock, op, cli>>

\* delete, line 270: Deno.remove(postFile)
FlatDeleteRemove(p) ==
    /\ procs[p].call = "flatDelete" /\ procs[p].pc = "remove"
    /\ fs' = removeAll(fs, FlatPostFile(procs[p].id)).fs
    /\ procs' = IF removeAll(fs, FlatPostFile(procs[p].id)).ok
                THEN Finished(p, "true") ELSE Finished(p, "false")
    /\ UNCHANGED <<clock, op, cli>>

\* the post the calls are made to is created before they start
FlatRaceSetup == AllIdle /\ FlatFiles(fs) = {} /\ FlatCreate(Str_a, Content_plain)

FlatRaceUpdateStart ==
    \E p \in Procs, data \in RaceUpdateData :
        flatGet(fs, Id_a, clock) # NoPost /\ FlatUpdateStart(p, Id_a, data)

FlatRaceDeleteStart ==
    \E p \in Procs : flatGet(fs, Id_a, clock) # NoPost /\ FlatDeleteStart(p, Id_a)

FlatRaceUpdateStep ==
    \E p \in Procs :
        FlatUpdateStat(p) \/ FlatUpdateRead(p) \/ FlatUpdateOpen(p) \/ FlatUpdateWrite(p)

FlatRaceDeleteStep == \E p \in Procs : FlatDeleteStat(p) \/ FlatDeleteRemove(p)

NextFlatRace ==
    \/ FlatRaceSetup \/ FlatRaceUpdateStart \/ FlatRaceDeleteStart
    \/ FlatRaceUpdateStep \/ FlatRaceDeleteStep

SpecFlatRace == Init /\ [][NextFlatRace]_vars

\* C29: in the flat-file layout, when an update and a delete of an existing
\* post have run concurrently and both are complete, and the delete returned
\* true, get(id) returns absent.
C29_NoResurrection ==
    \A p, q \in Procs :
        (/\ procs[p].call = "flatUpdate" /\ Done(p)
         /\ procs[q].call = "flatDelete" /\ Done(q) /\ procs[q].result = "true")
        => flatGet(fs, Id_a, clock) = NoPost

====
